---------------------------- MODULE Spec2Model ----------------------------
(***************************************************************************)
(* A model of the retrieval engine of mcp-memory-server: the LRU record    *)
(* cache (MemoryCache), the inverted index (MemoryIndex), the vector store *)
(* (MemoryVectorStore) and the MemoryManager operations that keep them and *)
(* the durable JSON files together.                                        *)
(*                                                                         *)
(* Numbers.  Vector components are fixed-point numbers with one decimal    *)
(* digit (the integer 6 stands for 0.6).  Similarities, thresholds and     *)
(* keyword weights are fixed-point numbers with four decimal digits (the   *)
(* integer One stands for 1.0).  The vectors of the model have rational    *)
(* magnitudes, so every similarity and every hybrid score is exact.        *)
(***************************************************************************)
EXTENDS Integers, Sequences, FiniteSets, TLC

VARIABLES
    files,          \* durable storage: file name -> list of records (FileManager)
    cache,          \* MemoryCache.cache: records, least recently used first
    maxSize,        \* MemoryCache.maxSize
    index,          \* MemoryIndex: the six maps, key -> ordered id set
    vectors,        \* MemoryVectorStore.vectors, in Map insertion order
    isDirty,        \* MemoryVectorStore.isDirty
    isInitialized,  \* MemoryManager.isInitialized
    vectorEnabled,  \* MemoryManager.vectorEnabled
    provider,       \* EmbeddingManager.provider: 0 = none, else its dimensions
    configFile,     \* embedding-config.json: 0 = missing, else the dimensions it sets
    snapshot,       \* vectors.json: whether it exists, its format and its elements
    now,            \* the clock read by new Date()
    nextId,         \* the next identifier uuidv4() hands out
    deleted,        \* history: ids whose deleteMemory returned success
    touched,        \* history: cached id -> the tick of its last get hit or set
    evicted,        \* history: ids the cache evicted and has not been given since
    autoSave,       \* MemoryVectorStore.autoSave
    saveInterval,   \* MemoryVectorStore.saveInterval: TRUE while the timer is set
    saving,         \* the save() calls in flight: what each one writes, oldest first
    indexed,        \* history: the records added to the index and not removed since
    retry,          \* the withRetry call of the embedding provider: its position and history
    pending,        \* the updateMemory and deleteMemory calls in flight or finished, in order of start
    before,         \* history: the engine as it was when the first of these pending started
    folders,        \* folders.json: the folder entries, in file order
    heap,           \* the objects the cache and its caller refer to, by address
    lastOp          \* the last public operation: its arguments and its result

vars == << files, cache, maxSize, index, vectors, isDirty, isInitialized,
           vectorEnabled, provider, configFile, snapshot, now, nextId, deleted,
           touched, evicted, autoSave, saveInterval, saving, indexed, retry,
           pending,
           before,
           folders,
           heap,
           lastOp >>

(***************************************************************************)
(* Bounds of the model.                                                    *)
(***************************************************************************)
MaxIds == 2          \* records created in one run
MaxCache == 2        \* largest cache capacity explored
MaxLimit == 2        \* largest limit / offset explored

(***************************************************************************)
(* Generic helpers on sequences.                                           *)
(***************************************************************************)
Range(s) == { s[i] : i \in DOMAIN s }

Min(a, b) == IF a <= b THEN a ELSE b

Max(a, b) == IF a >= b THEN a ELSE b

\* Array.prototype.slice(from, to) with 0-based bounds, from >= 0, to >= 0.
Slice(s, from, to) == SubSeq(s, from + 1, Min(to, Len(s)))

\* Array.prototype.slice(from): everything from the 0-based position on.
SliceFrom(s, from) == SubSeq(s, from + 1, Len(s))

Ids(s) == [ i \in DOMAIN s |-> s[i].id ]

HasId(s, id) == \E i \in DOMAIN s : s[i].id = id

EntryOf(s, id) == s[CHOOSE i \in DOMAIN s : s[i].id = id]

WithoutId(s, id) == SelectSeq(s, LAMBDA e : e.id # id)

(***************************************************************************)
(* Words and texts.  A text is a sequence of words separated by blanks;    *)
(* the empty sequence is the empty string.                                 *)
(***************************************************************************)
Words == { "I", "like", "enjoy", "cats", "Dogs", "dogs", "pets" }

\* String.prototype.toLowerCase on the words of the model.
ToLowerCase(w) == IF w = "Dogs" THEN "dogs" ELSE IF w = "I" THEN "i" ELSE w

\* word.length
WordLength(w) ==
    CASE w \in { "I", "i" } -> 1
      [] w \in { "like", "cats", "Dogs", "dogs", "pets" } -> 4
      [] OTHER -> 5

\* MemoryIndex.tokenize: lower-case, split on blanks, drop words of length <= 1.
tokenize(text) ==
    SelectSeq([ i \in DOMAIN text |-> ToLowerCase(text[i]) ],
              LAMBDA w : WordLength(w) > 1)

NoConversation == "none"     \* conversationId: undefined
NoEmbedding == << >>         \* embedding: undefined
EmptyMap == << >>            \* {} and new Map()

(***************************************************************************)
(* VectorUtils.                                                            *)
(***************************************************************************)
One == 100 * 100             \* 1.0 as a similarity

QuantizePrecision == 6       \* quantize(vector, precision = 6)

ComponentDigits == 1         \* decimal digits a vector component carries

RECURSIVE Pow10(_)
Pow10(n) == IF n = 0 THEN 1 ELSE 10 * Pow10(n - 1)

\* parseFloat(val.toFixed(precision)) on a number with ComponentDigits decimals
RoundTo(val, precision) ==
    IF precision >= ComponentDigits
    THEN val
    ELSE LET step == Pow10(ComponentDigits - precision)
         IN  ((2 * val + step) \div (2 * step)) * step

quantize(vector) == [ i \in DOMAIN vector |-> RoundTo(vector[i], QuantizePrecision) ]

\* VectorUtils.validateVector: a non-empty array (all numbers of the model are finite)
validateVector(vector) == Len(vector) > 0

RECURSIVE SumProd(_, _, _)
SumProd(a, b, n) == IF n = 0 THEN 0 ELSE a[n] * b[n] + SumProd(a, b, n - 1)

\* Math.sqrt on the sums of squares of the model (all are squares)
Sqrt(x) == CHOOSE r \in 0..x : r * r <= x /\ (r + 1) * (r + 1) > x

\* VectorUtils.cosineSimilarity; "error" stands for the thrown Error
cosineSimilarity(vectorA, vectorB) ==
    IF Len(vectorA) # Len(vectorB) \/ Len(vectorA) = 0
    THEN [ ok |-> FALSE, value |-> 0 ]
    ELSE LET dotProduct == SumProd(vectorA, vectorB, Len(vectorA))
             magnitudeA == Sqrt(SumProd(vectorA, vectorA, Len(vectorA)))
             magnitudeB == Sqrt(SumProd(vectorB, vectorB, Len(vectorB)))
         IN  IF magnitudeA = 0 \/ magnitudeB = 0
             THEN [ ok |-> TRUE, value |-> 0 ]
             ELSE [ ok |-> TRUE,
                    value |-> (dotProduct * One) \div (magnitudeA * magnitudeB) ]

(***************************************************************************)
(* Stable sorts (Array.prototype.sort is stable).                          *)
(***************************************************************************)
\* insert x behind every element whose key is >= the key of x
RECURSIVE InsertBySimilarity(_, _)
InsertBySimilarity(x, sorted) ==
    IF sorted = << >> THEN << x >>
    ELSE IF Head(sorted).similarity >= x.similarity
         THEN << Head(sorted) >> \o InsertBySimilarity(x, Tail(sorted))
         ELSE << x >> \o sorted

\* no sort: the results stay in the order they were collected
KeepOrder(s) == s

\* results.sort((a, b) => b.similarity - a.similarity)
RECURSIVE SortBySimilarity(_)
SortBySimilarity(s) ==
    IF s = << >> THEN << >>
    ELSE InsertBySimilarity(s[Len(s)], SortBySimilarity(SubSeq(s, 1, Len(s) - 1)))

RECURSIVE InsertByCreatedAt(_, _)
InsertByCreatedAt(x, sorted) ==
    IF sorted = << >> THEN << x >>
    ELSE IF Head(sorted).createdAt >= x.createdAt
         THEN << Head(sorted) >> \o InsertByCreatedAt(x, Tail(sorted))
         ELSE << x >> \o sorted

\* filteredMemories.sort((a, b) => new Date(b.createdAt) - new Date(a.createdAt))
RECURSIVE SortByCreatedAt(_)
SortByCreatedAt(s) ==
    IF s = << >> THEN << >>
    ELSE InsertByCreatedAt(s[Len(s)], SortByCreatedAt(SubSeq(s, 1, Len(s) - 1)))


(***************************************************************************)
(* MemoryCache.  The Map keeps its keys in insertion order; get and set    *)
(* re-insert the key, so the first entry is the least recently used one.   *)
(* The timestamp of an entry and the hit and miss counters are written but *)
(* never read by the operations modelled here; they are left out.          *)
(***************************************************************************)
\* MemoryCache.has
CacheHas(c, id) == HasId(c, id)

\* a get that leaves the entry where it is
CacheLeave(c, id) == c

\* MemoryCache.get: the cache after the call (a hit moves the entry to the end)
CacheTouch(c, id) ==
    IF HasId(c, id) THEN Append(WithoutId(c, id), EntryOf(c, id)) ELSE c

\* MemoryCache.set
CacheSet(c, capacity, id, entry) ==
    LET removed == IF HasId(c, id) THEN WithoutId(c, id) ELSE c
        room == IF Len(removed) >= capacity /\ removed # << >>
                THEN Tail(removed)
                ELSE removed
    IN  Append(room, entry)

\* a delete that forgets nothing
CacheKeep(c, id) == c

\* MemoryCache.delete
CacheDelete(c, id) == WithoutId(c, id)

\* MemoryCache.setMaxSize: the cache after the call
CacheShrink(c, capacity) ==
    IF Len(c) > capacity THEN SubSeq(c, Len(c) - capacity + 1, Len(c)) ELSE c

(***************************************************************************)
(* MemoryIndex.  Each of the six maps takes a key to a Set of identifiers; *)
(* a Set iterates in insertion order, so it is a duplicate-free sequence.  *)
(***************************************************************************)
EmptyIndex ==
    [ content |-> EmptyMap, tag |-> EmptyMap, type |-> EmptyMap,
      conversation |-> EmptyMap, metadata |-> EmptyMap, date |-> EmptyMap ]

TicksPerDay == 2     \* clock ticks that share one ISO date

\* new Date(createdAt).toISOString().split('T')[0]
DateOf(createdAt) == createdAt \div TicksPerDay

\* MemoryIndex.addToIndex
addToIndex(map, key, memoryId) ==
    IF key \in DOMAIN map
    THEN [ map EXCEPT ![key] = IF memoryId \in Range(@) THEN @ ELSE Append(@, memoryId) ]
    ELSE (key :> << memoryId >>) @@ map

\* removeFromIndex that leaves the key of an emptied set in the map
KeepEmptyKey(map, key, memoryId) ==
    IF key \in DOMAIN map
    THEN [ map EXCEPT ![key] = SelectSeq(@, LAMBDA x : x # memoryId) ]
    ELSE map

\* MemoryIndex.removeFromIndex: a key whose set becomes empty is deleted
removeFromIndex(map, key, memoryId) ==
    IF key \in DOMAIN map
    THEN LET set == SelectSeq(map[key], LAMBDA x : x # memoryId)
         IN  IF set = << >>
             THEN [ k \in (DOMAIN map) \ { key } |-> map[k] ]
             ELSE [ map EXCEPT ![key] = set ]
    ELSE map

RECURSIVE AddKeys(_, _, _)
AddKeys(map, keys, memoryId) ==
    IF keys = << >> THEN map
    ELSE AddKeys(addToIndex(map, Head(keys), memoryId), Tail(keys), memoryId)

RECURSIVE RemoveKeys(_, _, _)
RemoveKeys(map, keys, memoryId) ==
    IF keys = << >> THEN map
    ELSE RemoveKeys(removeFromIndex(map, Head(keys), memoryId), Tail(keys), memoryId)

\* a set as a sequence, in some order (the order of Object.entries does not
\* matter to what AddKeys and RemoveKeys leave behind)
RECURSIVE SetToSeq(_)
SetToSeq(S) ==
    IF S = {} THEN << >>
    ELSE LET x == CHOOSE y \in S : TRUE IN << x >> \o SetToSeq(S \ { x })

\* the keys `${key}:${String(value)}` of a metadata object
MetadataKeys(metadata) == SetToSeq({ << k, metadata[k] >> : k \in DOMAIN metadata })

\* tag.toLowerCase() for each tag
TagKeys(tags) == [ i \in DOMAIN tags |-> ToLowerCase(tags[i]) ]

\* MemoryIndex.addMemory
addMemory(idx, memory) ==
    [ content |-> AddKeys(idx.content, tokenize(memory.content), memory.id),
      tag |-> AddKeys(idx.tag, TagKeys(memory.tags), memory.id),
      type |-> addToIndex(idx.type, memory.type, memory.id),
      conversation |->
          IF memory.conversationId # NoConversation
          THEN addToIndex(idx.conversation, memory.conversationId, memory.id)
          ELSE idx.conversation,
      metadata |-> AddKeys(idx.metadata, MetadataKeys(memory.metadata), memory.id),
      date |-> addToIndex(idx.date, DateOf(memory.createdAt), memory.id) ]

\* MemoryIndex.removeMemory
removeMemory(idx, memory) ==
    [ content |-> RemoveKeys(idx.content, tokenize(memory.content), memory.id),
      tag |-> RemoveKeys(idx.tag, TagKeys(memory.tags), memory.id),
      type |-> removeFromIndex(idx.type, memory.type, memory.id),
      conversation |->
          IF memory.conversationId # NoConversation
          THEN removeFromIndex(idx.conversation, memory.conversationId, memory.id)
          ELSE idx.conversation,
      metadata |-> RemoveKeys(idx.metadata, MetadataKeys(memory.metadata), memory.id),
      date |-> removeFromIndex(idx.date, DateOf(memory.createdAt), memory.id) ]

\* updateMemory that forgets to remove the old record
AddOnly(idx, oldMemory, newMemory) == addMemory(idx, newMemory)

\* MemoryIndex.updateMemory
indexUpdateMemory(idx, oldMemory, newMemory) ==
    addMemory(removeMemory(idx, oldMemory), newMemory)

\* a result set of the index: "null" (no criterion yet) or a Set
NullSet == [ isNull |-> TRUE, ids |-> << >> ]

SomeSet(ids) == [ isNull |-> FALSE, ids |-> ids ]

\* intersectSets that forgets the running result
LastCriterionOnly(set1, ids2) == SomeSet(ids2)

\* MemoryIndex.intersectSets
intersectSets(set1, ids2) ==
    IF set1.isNull THEN SomeSet(ids2)
    ELSE SomeSet(SelectSeq(set1.ids, LAMBDA x : x \in Range(ids2)))

\* map.get(key) || new Set()
Lookup(map, key) == IF key \in DOMAIN map THEN map[key] ELSE << >>

\* MemoryIndex.searchContent: every token of the text must match (AND)
RECURSIVE IntersectWords(_, _, _)
IntersectWords(map, words, acc) ==
    IF words = << >> THEN acc
    ELSE IntersectWords(map, Tail(words), intersectSets(acc, Lookup(map, Head(words))))

searchContent(idx, searchText) == IntersectWords(idx.content, tokenize(searchText), NullSet).ids

\* the union of two Sets, the first one's order first
UnionSets(ids1, ids2) == ids1 \o SelectSeq(ids2, LAMBDA x : x \notin Range(ids1))

\* MemoryIndex.searchTags: one of the tags must match (OR)
RECURSIVE UnionTags(_, _, _)
UnionTags(map, tags, acc) ==
    IF tags = << >> THEN acc
    ELSE UnionTags(map, Tail(tags),
                   UnionSets(acc, Lookup(map, ToLowerCase(Head(tags)))))

searchTags(idx, tags) == UnionTags(idx.tag, tags, << >>)

NoText == << >>      \* searchText: undefined (or the empty string)
NoTags == << >>      \* tags: undefined (or the empty array)
NoType == "any"      \* type: undefined

\* MemoryIndex.search with the four criteria readMemories passes
indexSearch(idx, options) ==
    LET r1 == IF options.searchText # NoText
              THEN intersectSets(NullSet, searchContent(idx, options.searchText))
              ELSE NullSet
        r2 == IF options.tags # NoTags
              THEN intersectSets(r1, searchTags(idx, options.tags))
              ELSE r1
        r3 == IF options.type # NoType
              THEN intersectSets(r2, Lookup(idx.type, options.type))
              ELSE r2
        r4 == IF options.conversationId # NoConversation
              THEN intersectSets(r3, Lookup(idx.conversation, options.conversationId))
              ELSE r3
    IN  r4.ids

NoMetadata == [ given |-> FALSE, pairs |-> EmptyMap ]     \* metadata: undefined

SomeMetadata(pairs) == [ given |-> TRUE, pairs |-> pairs ]

\* MemoryIndex.searchMetadata: every pair must match (AND)
searchMetadata(idx, metadata) ==
    IntersectWords(idx.metadata, MetadataKeys(metadata), NullSet).ids

NoDate == -1         \* from or to: undefined (or the empty string)

NoDateRange == [ given |-> FALSE, from |-> NoDate, to |-> NoDate ]     \* dateRange: undefined

SomeDateRange(from, to) == [ given |-> TRUE, from |-> from, to |-> to ]

\* new Date(dateStr) of a key of the date index: the first tick of that day
DayStart(date) == date * TicksPerDay

\* MemoryIndex.searchDateRange: the union of the id sets of the dates in the range
searchDateRange(idx, dateRange) ==
    LET inRange(date) ==
            /\ ~(dateRange.from # NoDate /\ DayStart(date) < dateRange.from)
            /\ ~(dateRange.to # NoDate /\ DayStart(date) > dateRange.to)
        RECURSIVE UnionDates(_, _)
        UnionDates(dates, acc) ==
            IF dates = << >> THEN acc
            ELSE UnionDates(Tail(dates),
                            IF inRange(Head(dates))
                            THEN UnionSets(acc, idx.date[Head(dates)])
                            ELSE acc)
    IN  UnionDates(SetToSeq(DOMAIN idx.date), << >>)

\* MemoryIndex.search with all six criteria
search(idx, options) ==
    LET r1 == IF options.searchText # NoText
              THEN intersectSets(NullSet, searchContent(idx, options.searchText))
              ELSE NullSet
        r2 == IF options.tags # NoTags
              THEN intersectSets(r1, searchTags(idx, options.tags))
              ELSE r1
        r3 == IF options.type # NoType
              THEN intersectSets(r2, Lookup(idx.type, options.type))
              ELSE r2
        r4 == IF options.conversationId # NoConversation
              THEN intersectSets(r3, Lookup(idx.conversation, options.conversationId))
              ELSE r3
        r5 == IF options.metadata.given
              THEN intersectSets(r4, searchMetadata(idx, options.metadata.pairs))
              ELSE r4
        r6 == IF options.dateRange.given
              THEN intersectSets(r5, searchDateRange(idx, options.dateRange))
              ELSE r5
    IN  r6.ids



(***************************************************************************)
(* FileManager.  files maps the name of each existing file to the array it *)
(* holds.  An I/O step either works or throws; which one is the            *)
(* environment's choice, passed to the operators as an argument.           *)
(***************************************************************************)
GlobalFile == "global_memories.json"

\* FileManager.getConversationMemoryFilePath: the file of a conversation is
\* named by the conversation's id
getConversationMemoryFilePath(conversationId) == conversationId

\* MemoryManager.getMemoryFilePath
getMemoryFilePath(memory) ==
    IF memory.type = "global" THEN GlobalFile
    ELSE IF memory.conversationId # NoConversation
         THEN getConversationMemoryFilePath(memory.conversationId)
         ELSE GlobalFile

\* FileManager.readJsonFile: the array read (a missing file reads as [])
readJsonFile(fs, filePath) == IF filePath \in DOMAIN fs THEN fs[filePath] ELSE << >>

WriteFaults == { "none", "size", "lock" }

\* FileManager.writeJsonFile: the files after the call.  fault "size": the
\* JSON text exceeds maxFileSize, thrown before anything is touched; fault
\* "lock": the lock (or the write under it) throws, after a missing file
\* was created holding '[]'.
writeJsonFile(fs, filePath, data, fault) ==
    IF fault = "size" THEN fs
    ELSE LET created == IF filePath \in DOMAIN fs THEN fs ELSE (filePath :> << >>) @@ fs
         IN  IF fault = "lock" THEN created
             ELSE [ created EXCEPT ![filePath] = data ]

(***************************************************************************)
(* MemoryVectorStore.  vectors is the Map in insertion order: set() of an  *)
(* existing key keeps the key's place.                                     *)
(***************************************************************************)
MapSet(map, id, entry) ==
    IF HasId(map, id)
    THEN [ i \in DOMAIN map |-> IF map[i].id = id THEN entry ELSE map[i] ]
    ELSE Append(map, entry)

\* !content || content.trim().length === 0
IsBlank(content) == content = << >>

\* MemoryVectorStore.addVector: [threw, vectors, isDirty] after the call
addVector(vs, dirty, id, embedding, content, metadata, time) ==
    IF ~validateVector(embedding) \/ IsBlank(content)
    THEN [ threw |-> TRUE, vectors |-> vs, isDirty |-> dirty ]
    ELSE [ threw |-> FALSE,
           vectors |-> MapSet(vs, id,
                              [ id |-> id, embedding |-> quantize(embedding),
                                content |-> content, metadata |-> metadata,
                                createdAt |-> time, updatedAt |-> time ]),
           isDirty |-> TRUE ]

\* removeVector that leaves the dirty flag alone
RemoveQuietly(vs, dirty, id) ==
    [ existed |-> HasId(vs, id), vectors |-> WithoutId(vs, id), isDirty |-> dirty ]

\* MemoryVectorStore.removeVector
removeVector(vs, dirty, id) ==
    IF HasId(vs, id)
    THEN [ existed |-> TRUE, vectors |-> WithoutId(vs, id), isDirty |-> TRUE ]
    ELSE [ existed |-> FALSE, vectors |-> vs, isDirty |-> dirty ]

\* MemoryVectorStore.updateVector
updateVector(vs, dirty, id, embedding, content, metadata, time) ==
    IF ~HasId(vs, id)
    THEN [ threw |-> FALSE, updated |-> FALSE, vectors |-> vs, isDirty |-> dirty ]
    ELSE IF ~validateVector(embedding) \/ IsBlank(content)
         THEN [ threw |-> TRUE, updated |-> FALSE, vectors |-> vs, isDirty |-> dirty ]
         ELSE [ threw |-> FALSE, updated |-> TRUE,
                vectors |-> MapSet(vs, id,
                                   [ EntryOf(vs, id) EXCEPT
                                       !.embedding = quantize(embedding),
                                       !.content = content,
                                       !.metadata = metadata,
                                       !.updatedAt = time ]),
                isDirty |-> TRUE ]

\* the loop of searchSimilar: the entries at least as similar as the threshold,
\* in Map order; an entry whose similarity throws is skipped
RECURSIVE Candidates(_, _, _)
Candidates(vs, queryEmbedding, threshold) ==
    IF vs = << >> THEN << >>
    ELSE LET entry == Head(vs)
             sim == cosineSimilarity(queryEmbedding, entry.embedding)
             rest == Candidates(Tail(vs), queryEmbedding, threshold)
         IN  IF sim.ok /\ sim.value >= threshold
             THEN << [ id |-> entry.id, similarity |-> sim.value,
                       content |-> entry.content, metadata |-> entry.metadata ] >> \o rest
             ELSE rest

\* MemoryVectorStore.searchSimilar: [threw, results]
searchSimilar(vs, queryEmbedding, limit, threshold) ==
    IF ~validateVector(queryEmbedding)
    THEN [ threw |-> TRUE, results |-> << >> ]
    ELSE IF Len(vs) = 0
         THEN [ threw |-> FALSE, results |-> << >> ]
         ELSE [ threw |-> FALSE,
                results |-> Slice(SortBySimilarity(Candidates(vs, queryEmbedding, threshold)),
                                  0, limit) ]

(***************************************************************************)
(* The snapshot file of the vector store.  snapshot.format tells what      *)
(* JSON.parse makes of the file: "ok" (an object with a vectors array),    *)
(* "misshapen" (valid JSON without a vectors array) or "unparseable".  An  *)
(* element of the vectors array is an object or null.                      *)
(***************************************************************************)
NoId == 0            \* id: missing, or the empty string

JsonNull == [ kind |-> "null" ]

\* JSON.stringify of a metadata object: a property whose value is undefined
\* (the conversationId of a global record) is left out
JsonMetadata(metadata) ==
    [ k \in { j \in DOMAIN metadata :
                ~(j = "conversationId" /\ metadata[j] = NoConversation) } |-> metadata[k] ]

\* JSON.stringify of a vector entry, as JSON.parse reads it back
JsonObject(entry) ==
    [ kind |-> "object", id |-> entry.id, embedding |-> entry.embedding,
      content |-> entry.content, metadata |-> JsonMetadata(entry.metadata),
      createdAt |-> entry.createdAt, updatedAt |-> entry.updatedAt ]

\* a save that writes the oldest entry only
OldestOnly(vs) == IF vs = << >> THEN << >> ELSE << JsonObject(vs[1]) >>

\* Array.from(this.vectors.entries()).map(([, entry]) => entry), stringified
stringifyVectors(vs) == [ i \in DOMAIN vs |-> JsonObject(vs[i]) ]

MissingSnapshot == [ exists |-> FALSE, format |-> "ok", entries |-> << >> ]

WrittenSnapshot(data) == [ exists |-> TRUE, format |-> "ok", entries |-> data ]

\* what a writeFile that failed half-way leaves behind
TruncatedSnapshot == [ exists |-> TRUE, format |-> "unparseable", entries |-> << >> ]

\* a save() in flight: who called it, the await it is at, and what it writes
saveCalled(origin) == [ origin |-> origin, phase |-> "mkdir", data |-> << >> ]

\* the save at place i of the calls in flight, removed
Settled(calls, i) == SubSeq(calls, 1, i - 1) \o SubSeq(calls, i + 1, Len(calls))

\* MemoryVectorStore.save after fs.mkdir resolved: the data is taken from
\* the map and fs.writeFile is called
saveWrites(calls, i, vs) ==
    [ calls EXCEPT ![i] = [ @ EXCEPT !.phase = "write", !.data = stringifyVectors(vs) ] ]

\* MemoryVectorStore.clear
clear(vs, dirty) == [ vectors |-> << >>, isDirty |-> TRUE ]

\* the VectorEntry load builds from an element of the array
VectorEntryOf(vectorData) ==
    [ id |-> vectorData.id, embedding |-> vectorData.embedding,
      content |-> vectorData.content, metadata |-> vectorData.metadata,
      createdAt |-> vectorData.createdAt, updatedAt |-> vectorData.updatedAt ]

\* the loop of MemoryVectorStore.load over an array without null: elements
\* without an id, an embedding or a content are skipped
load(entries) ==
    LET wellFormed == SelectSeq(entries,
                                LAMBDA v : /\ v.id # NoId
                                           /\ v.embedding # NoEmbedding
                                           /\ ~IsBlank(v.content))
        RECURSIVE SetAll(_, _)
        SetAll(map, rest) ==
            IF rest = << >> THEN map
            ELSE SetAll(MapSet(map, Head(rest).id, VectorEntryOf(Head(rest))), Tail(rest))
    IN  SetAll(<< >>, wellFormed)

\* place of the first null of the array, or its length + 1
RECURSIVE FirstNull(_, _)
FirstNull(entries, i) ==
    IF i > Len(entries) \/ entries[i] = JsonNull THEN i ELSE FirstNull(entries, i + 1)

\* MemoryVectorStore.load: [threw, vectors, isDirty] after the call.  A
\* missing file is logged and nothing else happens; an unparseable or
\* misshapen file throws before the map is cleared; reading a property of
\* null throws in the middle of the loop.
loadFile(vs, dirty, file) ==
    IF ~file.exists THEN [ threw |-> FALSE, vectors |-> vs, isDirty |-> dirty ]
    ELSE IF file.format # "ok" THEN [ threw |-> TRUE, vectors |-> vs, isDirty |-> dirty ]
    ELSE LET n == FirstNull(file.entries, 1)
         IN  IF n <= Len(file.entries)
             THEN [ threw |-> TRUE, vectors |-> load(SubSeq(file.entries, 1, n - 1)),
                    isDirty |-> dirty ]
             ELSE [ threw |-> FALSE, vectors |-> load(file.entries), isDirty |-> FALSE ]

\* destroy that leaves the timer set
LeaveTimer(timer, dirty, auto) == [ saveInterval |-> timer, saves |-> dirty /\ auto ]

\* MemoryVectorStore.destroy: [saveInterval, saves] after the call
destroy(timer, dirty, auto) ==
    [ saveInterval |-> FALSE, saves |-> dirty /\ auto ]

(***************************************************************************)
(* EmbeddingManager and the providers.  What the provider answers is the   *)
(* environment's choice: the argument answer says whether the call worked  *)
(* (ok) or threw after its retries, and the embedding it returned.         *)
(***************************************************************************)
ProviderFailure == [ ok |-> FALSE, embedding |-> NoEmbedding ]

ProviderAnswer(embedding) == [ ok |-> TRUE, embedding |-> embedding ]

\* EmbeddingManager.generateEmbedding: [threw, embedding]; the provider's
\* validateEmbedding throws on an answer of another length than its dimensions
generateEmbedding(prov, text, answer) ==
    IF prov = 0 \/ IsBlank(text) \/ ~answer.ok \/ Len(answer.embedding) # prov
    THEN [ threw |-> TRUE, embedding |-> NoEmbedding ]
    ELSE [ threw |-> FALSE, embedding |-> answer.embedding ]



(***************************************************************************)
(* MemoryManager.  The engine's state as one value, so that each operation *)
(* is a function from the state before to the state after and the result.  *)
(***************************************************************************)
Eng ==
    [ files |-> files, cache |-> cache, maxSize |-> maxSize, index |-> index,
      vectors |-> vectors, isDirty |-> isDirty, isInitialized |-> isInitialized,
      vectorEnabled |-> vectorEnabled, provider |-> provider,
      configFile |-> configFile, snapshot |-> snapshot ]

\* a handler's body ends by returning a response or by throwing
Return(e, success, error, data) ==
    [ eng |-> e, thrown |-> FALSE, success |-> success, error |-> error, data |-> data,
      embeddingFailed |-> FALSE ]

Throw(e, error) ==
    [ eng |-> e, thrown |-> TRUE, success |-> FALSE, error |-> error, data |-> << >>,
      embeddingFailed |-> FALSE ]

\* the result r of a call on whose way the embedding try block threw (or not)
AfterEmbedding(failed, r) == [ r EXCEPT !.embeddingFailed = failed ]

\* a handler without its catch block: what the body throws leaves the engine
Rethrow(r) == r

\* catch (error) { return { success: false, error: error.message } }
CatchAll(r) ==
    IF r.thrown THEN [ r EXCEPT !.thrown = FALSE, !.success = FALSE ] ELSE r

\* the loop of initialize over the records of one file
RECURSIVE LoadMemories(_, _)
LoadMemories(e, memories) ==
    IF memories = << >> THEN e
    ELSE LoadMemories([ e EXCEPT !.cache = CacheSet(@, e.maxSize, Head(memories).id,
                                                     Head(memories)),
                                 !.index = addMemory(@, Head(memories)) ],
                      Tail(memories))

\* the loop of initialize over the memory files
RECURSIVE LoadFiles(_, _)
LoadFiles(e, names) ==
    IF names = << >> THEN e
    ELSE LoadFiles(LoadMemories(e, readJsonFile(e.files, Head(names))), Tail(names))

InitFaults == { "none", "read", "load" }

\* MemoryManager.initialize: [threw, eng].  fault "read": the first
\* readJsonFile throws; fault "load": vectorStore.load throws on an
\* unreadable snapshot.
initializeBody(e, fault) ==
    IF fault = "read" /\ DOMAIN e.files # {}
    THEN [ threw |-> TRUE, eng |-> e ]
    ELSE LET loaded == LoadFiles(e, SetToSeq(DOMAIN e.files))
             configured == IF e.configFile # 0
                           THEN [ loaded EXCEPT !.provider = e.configFile ]
                           ELSE loaded
             fromFile == loadFile(e.vectors, e.isDirty, e.snapshot)
             withStore == [ configured EXCEPT !.vectors = fromFile.vectors,
                                              !.isDirty = fromFile.isDirty ]
         IN  IF fault = "load" THEN [ threw |-> TRUE, eng |-> configured ]
             ELSE IF fromFile.threw THEN [ threw |-> TRUE, eng |-> withStore ]
             ELSE [ threw |-> FALSE,
                    eng |-> [ withStore EXCEPT
                                !.vectorEnabled = (configured.provider # 0),
                                !.isInitialized = TRUE ] ]

\* initialize without its first line: it loads on every call
LoadAgain(e, fault) == initializeBody(e, fault)

\* MemoryManager.initialize: if (this.isInitialized) return
initialize(e, fault) ==
    IF e.isInitialized THEN [ threw |-> FALSE, eng |-> e ] ELSE initializeBody(e, fault)

\* the metadata createMemory hands to the vector store
VectorMetadata(memory) ==
    [ type |-> memory.type, conversationId |-> memory.conversationId,
      tags |-> memory.tags, createdAt |-> memory.createdAt ]

\* the try block createMemory runs when vector search is enabled:
\* generateEmbedding, memory.embedding = ..., vectorStore.addVector
EmbedAndStore(e, memory, env) ==
    LET emb == generateEmbedding(e.provider, memory.content, env.answer)
        withEmbedding == [ memory EXCEPT !.embedding = emb.embedding ]
        added == addVector(e.vectors, e.isDirty, memory.id, emb.embedding,
                           memory.content, VectorMetadata(memory), env.now)
    IN  IF emb.threw THEN [ threw |-> TRUE, eng |-> e, memory |-> memory ]
        ELSE IF added.threw THEN [ threw |-> TRUE, eng |-> e, memory |-> withEmbedding ]
        ELSE [ threw |-> FALSE, memory |-> withEmbedding,
               eng |-> [ e EXCEPT !.vectors = added.vectors, !.isDirty = added.isDirty ] ]

\* that try block without its catch: the failure goes on to the outer catch
FailWithoutVector(step) == step @@ [ failed |-> step.threw ]

\* catch (error) { logger.warn('Failed to generate embedding for memory,
\* continuing without vector support') }
ContinueWithoutVector(step) == [ step EXCEPT !.threw = FALSE ] @@ [ failed |-> step.threw ]

\* MemoryManager.createMemory, the body of its try block.  env is what the
\* environment decides: the uuid, the clock, the provider's answer and which
\* I/O step throws.
createMemoryBody(e, input, env) ==
    LET init == initialize(e, env.initFault)
        e1 == init.eng
    IN  IF init.threw THEN Throw(e1, "Initialization failed")
        ELSE IF input.content = << >> THEN Throw(e1, "Validation failed")
        ELSE
        LET memory0 == [ id |-> env.id, content |-> input.content, type |-> input.type,
                         conversationId |-> input.conversationId,
                         createdAt |-> env.now, updatedAt |-> env.now,
                         tags |-> input.tags, metadata |-> input.metadata,
                         embedding |-> NoEmbedding ]
            step == IF e1.vectorEnabled
                    THEN ContinueWithoutVector(EmbedAndStore(e1, memory0, env))
                    ELSE [ threw |-> FALSE, eng |-> e1, memory |-> memory0,
                           failed |-> FALSE ]
            memory == step.memory
            e2 == step.eng
            filePath == getMemoryFilePath(memory)
        IN  IF step.threw THEN AfterEmbedding(step.failed, Throw(e2, "Embedding failed"))
            ELSE IF env.readFault THEN AfterEmbedding(step.failed, Throw(e2, "Read failed"))
            ELSE
            LET existingMemories == Append(readJsonFile(e2.files, filePath), memory)
                e3 == [ e2 EXCEPT !.files = writeJsonFile(@, filePath, existingMemories,
                                                          env.writeFault) ]
            IN  IF env.writeFault # "none"
                THEN AfterEmbedding(step.failed, Throw(e3, "Write failed"))
                ELSE AfterEmbedding(step.failed,
                            Return([ e3 EXCEPT
                                       !.cache = CacheSet(@, e3.maxSize, memory.id, memory),
                                       !.index = addMemory(@, memory) ],
                                   TRUE, "", << memory >>))

\* MemoryManager.createMemory
createMemory(e, input, env) == CatchAll(createMemoryBody(e, input, env))



Absent == << "<undefined>" >>    \* an optional text or tag list that is not given

\* an update that keeps the supplied keys only
ReplaceMetadata(old, given) == given

\* { ...oldMemory.metadata, ...validatedInput.metadata }
MergeMetadata(old, given) == given @@ old

\* MemoryManager.updateMemory, the body of its try block
updateMemoryBody(e, memoryId, input, env) ==
    LET init == initialize(e, env.initFault)
        e1 == init.eng
    IN  IF init.threw THEN Throw(e1, "Initialization failed")
        ELSE IF input.content = << >> THEN Throw(e1, "Validation failed")
        ELSE IF ~CacheHas(e1.cache, memoryId)
        THEN Return(e1, FALSE, "Memory not found", << >>)
        ELSE
        LET oldMemory == EntryOf(e1.cache, memoryId)
            e2 == [ e1 EXCEPT !.cache = CacheTouch(@, memoryId) ]
            updatedMemory ==
                [ oldMemory EXCEPT
                    !.content = IF input.content # Absent THEN input.content ELSE @,
                    !.tags = IF input.tags # Absent THEN input.tags ELSE @,
                    !.metadata = MergeMetadata(@, input.metadata),
                    !.updatedAt = env.now ]
            filePath == getMemoryFilePath(updatedMemory)
        IN  IF env.readFault THEN Throw(e2, "Read failed")
            ELSE
            LET memories == readJsonFile(e2.files, filePath)
                updatedMemories ==
                    [ i \in DOMAIN memories |->
                        IF memories[i].id = memoryId THEN updatedMemory ELSE memories[i] ]
                e3 == [ e2 EXCEPT !.files = writeJsonFile(@, filePath, updatedMemories,
                                                          env.writeFault) ]
            IN  IF env.writeFault # "none" THEN Throw(e3, "Write failed")
                ELSE Return([ e3 EXCEPT
                                !.cache = CacheSet(@, e3.maxSize, memoryId, updatedMemory),
                                !.index = indexUpdateMemory(@, oldMemory, updatedMemory) ],
                            TRUE, "", << updatedMemory >>)

\* MemoryManager.updateMemory
updateMemory(e, memoryId, input, env) == CatchAll(updateMemoryBody(e, memoryId, input, env))

\* MemoryManager.deleteMemory, the body of its try block
deleteMemoryBody(e, memoryId, env) ==
    LET init == initialize(e, env.initFault)
        e1 == init.eng
    IN  IF init.threw THEN Throw(e1, "Initialization failed")
        ELSE IF ~CacheHas(e1.cache, memoryId)
        THEN Return(e1, FALSE, "Memory not found", << >>)
        ELSE
        LET memory == EntryOf(e1.cache, memoryId)
            e2 == [ e1 EXCEPT !.cache = CacheTouch(@, memoryId) ]
            filePath == getMemoryFilePath(memory)
        IN  IF env.readFault THEN Throw(e2, "Read failed")
            ELSE
            LET memories == readJsonFile(e2.files, filePath)
                filteredMemories == WithoutId(memories, memoryId)
                e3 == [ e2 EXCEPT !.files = writeJsonFile(@, filePath, filteredMemories,
                                                          env.writeFault) ]
            IN  IF env.writeFault # "none" THEN Throw(e3, "Write failed")
                ELSE Return([ e3 EXCEPT !.cache = CacheDelete(@, memoryId),
                                        !.index = removeMemory(@, memory) ],
                            TRUE, "", << >>)

\* MemoryManager.deleteMemory
deleteMemory(e, memoryId, env) == CatchAll(deleteMemoryBody(e, memoryId, env))



NoLimit == -1        \* limit: undefined
NoOffset == -1       \* offset: undefined

\* MemoryManager.hasSearchCriteria
hasSearchCriteria(filter) ==
    \/ filter.searchText # NoText
    \/ filter.tags # NoTags
    \/ filter.type # NoType
    \/ filter.conversationId # NoConversation

\* the loop of readMemories over the ids the index found: cache.get of each
RECURSIVE TouchAll(_, _)
TouchAll(c, memoryIds) ==
    IF memoryIds = << >> THEN c
    ELSE TouchAll(CacheTouch(c, Head(memoryIds)), Tail(memoryIds))

\* the records readMemories collects before it sorts them
filteredMemories(e, filter) ==
    IF hasSearchCriteria(filter)
    THEN LET hits == SelectSeq(indexSearch(e.index, filter),
                               LAMBDA id : CacheHas(e.cache, id))
         IN  [ i \in DOMAIN hits |-> EntryOf(e.cache, hits[i]) ]
    ELSE LET byType == IF filter.type # NoType
                       THEN SelectSeq(e.cache, LAMBDA m : m.type = filter.type)
                       ELSE e.cache
         IN  IF filter.conversationId # NoConversation
             THEN SelectSeq(byType, LAMBDA m : m.conversationId = filter.conversationId)
             ELSE byType

\* the pagination of readMemories: offset first, limit second
LimitFirst(sorted, filter) ==
    LET limited == IF filter.limit # NoLimit THEN Slice(sorted, 0, filter.limit)
                   ELSE sorted
    IN  IF filter.offset # NoOffset THEN SliceFrom(limited, filter.offset) ELSE limited

paginate(sorted, filter) ==
    LET skipped == IF filter.offset # NoOffset THEN SliceFrom(sorted, filter.offset)
                   ELSE sorted
    IN  IF filter.limit # NoLimit THEN Slice(skipped, 0, filter.limit) ELSE skipped

\* MemoryManager.readMemories, the body of its try block
readMemoriesBody(e, filter, env) ==
    LET init == initialize(e, env.initFault)
        e1 == init.eng
    IN  IF init.threw THEN Throw(e1, "Initialization failed")
        ELSE IF (filter.limit # NoLimit /\ filter.limit < 1)
                \/ (filter.offset # NoOffset /\ filter.offset < 0)
        THEN Throw(e1, "Validation failed")
        ELSE
        LET e2 == IF hasSearchCriteria(filter)
                  THEN [ e1 EXCEPT !.cache = TouchAll(@, indexSearch(e1.index, filter)) ]
                  ELSE e1
        IN  Return(e2, TRUE, "",
                   paginate(SortByCreatedAt(filteredMemories(e1, filter)), filter))

\* MemoryManager.readMemories
readMemories(e, filter, env) == CatchAll(readMemoriesBody(e, filter, env))

\* a vector hit keeps its similarity whatever the keyword weight is
NotScaled(similarity, keywordWeight) == similarity

\* result.similarity * (1 - keywordWeight)
Scaled(similarity, keywordWeight) == (similarity * (One - keywordWeight)) \div One

\* a keyword hit that the vector search found too keeps the vector score only
OverwriteNothing(similarity, keywordWeight) == similarity

\* existing.similarity += keywordWeight
Boosted(similarity, keywordWeight) == similarity + keywordWeight

\* the second loop of combineSearchResults, over the keyword results
RECURSIVE AddKeywordResults(_, _, _)
AddKeywordResults(combined, keywordResults, keywordWeight) ==
    IF keywordResults = << >> THEN combined
    ELSE LET memory == Head(keywordResults)
             next ==
                 IF HasId(combined, memory.id)
                 THEN MapSet(combined, memory.id,
                             [ EntryOf(combined, memory.id) EXCEPT
                                 !.similarity = Boosted(@, keywordWeight) ])
                 ELSE Append(combined,
                             [ id |-> memory.id, similarity |-> keywordWeight,
                               content |-> memory.content,
                               metadata |-> VectorMetadata(memory) ])
         IN  AddKeywordResults(next, Tail(keywordResults), keywordWeight)

\* MemoryManager.combineSearchResults
combineSearchResults(vectorResults, keywordResults, keywordWeight) ==
    LET scaled == [ i \in DOMAIN vectorResults |->
                      [ vectorResults[i] EXCEPT
                          !.similarity = Scaled(@, keywordWeight) ] ]
    IN  SortBySimilarity(AddKeywordResults(scaled, keywordResults, keywordWeight))

\* the filter of the keyword read of a hybrid search
KeywordFilter(options) ==
    [ searchText |-> options.query, tags |-> NoTags, type |-> NoType,
      conversationId |-> NoConversation,
      limit |-> (options.limit + 1) \div 2,      \* Math.ceil(options.limit * 0.5)
      offset |-> NoOffset ]

\* MemoryManager.semanticSearch, the body of its try block
semanticSearchBody(e, options, env) ==
    LET init == initialize(e, env.initFault)
        e1 == init.eng
    IN  IF init.threw THEN Throw(e1, "Initialization failed")
        ELSE IF ~e1.vectorEnabled
        THEN Return(e1, FALSE, "Vector search is not enabled", << >>)
        ELSE
        LET emb == generateEmbedding(e1.provider, options.query, env.answer)
            found == searchSimilar(e1.vectors, emb.embedding, options.limit,
                                   options.threshold)
        IN  IF emb.threw THEN Throw(e1, "Embedding failed")
            ELSE IF found.threw THEN Throw(e1, "Invalid query embedding vector")
            ELSE IF ~options.hybridSearch THEN Return(e1, TRUE, "", found.results)
            ELSE
            LET keywordResults == readMemories(e1, KeywordFilter(options), env)
            IN  IF keywordResults.success
                THEN Return(keywordResults.eng, TRUE, "",
                            Slice(combineSearchResults(found.results, keywordResults.data,
                                                       options.keywordWeight),
                                  0, options.limit))
                ELSE Return(keywordResults.eng, TRUE, "", found.results)

\* MemoryManager.semanticSearch
semanticSearch(e, options, env) == CatchAll(semanticSearchBody(e, options, env))

\* MemoryManager.configureEmbedding (EmbeddingManager.configure inlined): the
\* provider is tested with one embedding call, kept, and its configuration saved
configureEmbeddingBody(e, dimensions, env) ==
    IF ~env.answer.ok \/ Len(env.answer.embedding) # dimensions
    THEN Throw(e, "Failed to connect to provider")
    ELSE LET e1 == [ e EXCEPT !.provider = dimensions ]
         IN  IF env.writeFault # "none" THEN Throw(e1, "Write failed")
             ELSE Return([ e1 EXCEPT !.configFile = dimensions, !.vectorEnabled = TRUE ],
                         TRUE, "", << >>)

\* MemoryManager.configureEmbedding
configureEmbedding(e, dimensions, env) == CatchAll(configureEmbeddingBody(e, dimensions, env))



(***************************************************************************)
(* The inputs the operations are tried with.                               *)
(***************************************************************************)
EmbeddingDim == 2    \* config.dimensions of the configured provider

CatsText == << "I", "like", "cats" >>
DogsText == << "I", "enjoy", "Dogs" >>
PetsText == << "I", "like", "pets" >>

ValidCreateInputs ==
    { [ content |-> CatsText, type |-> "global", conversationId |-> NoConversation,
        tags |-> << "pets" >>, metadata |-> EmptyMap ],
      [ content |-> DogsText, type |-> "conversation", conversationId |-> "c1",
        tags |-> << >>, metadata |-> ("topic" :> "animals") ] }

InvalidCreateInputs ==
    { [ content |-> << >>, type |-> "global", conversationId |-> NoConversation,
        tags |-> << >>, metadata |-> EmptyMap ] }

ValidUpdateInputs ==
    { [ content |-> PetsText, tags |-> Absent, metadata |-> EmptyMap ],
      [ content |-> Absent, tags |-> << "Dogs" >>, metadata |-> ("topic" :> "pets") ] }

InvalidUpdateInputs == { [ content |-> << >>, tags |-> Absent, metadata |-> EmptyMap ] }

Embeddings == { << 10, 0 >>, << 6, 8 >>, << 0, 10 >> }

Answers == { ProviderFailure } \cup { ProviderAnswer(v) : v \in Embeddings }

NoFault == [ initFault |-> "none", readFault |-> FALSE, writeFault |-> "none" ]

Faults ==
    { NoFault,
      [ NoFault EXCEPT !.initFault = "read" ],
      [ NoFault EXCEPT !.initFault = "load" ],
      [ NoFault EXCEPT !.readFault = TRUE ],
      [ NoFault EXCEPT !.writeFault = "size" ],
      [ NoFault EXCEPT !.writeFault = "lock" ] }

\* what the environment decides during one call
Env(fault, answer, id, time) ==
    [ initFault |-> fault.initFault, readFault |-> fault.readFault,
      writeFault |-> fault.writeFault, answer |-> answer, id |-> id, now |-> time ]

(***************************************************************************)
(* The actions: one per public operation.                                  *)
(***************************************************************************)
\* the engine takes the state r.eng and the caller gets r
Apply(r, name, memoryId, args) ==
    /\ files' = r.eng.files
    /\ cache' = r.eng.cache
    /\ maxSize' = r.eng.maxSize
    /\ index' = r.eng.index
    /\ vectors' = r.eng.vectors
    /\ isDirty' = r.eng.isDirty
    /\ isInitialized' = r.eng.isInitialized
    /\ vectorEnabled' = r.eng.vectorEnabled
    /\ provider' = r.eng.provider
    /\ configFile' = r.eng.configFile
    /\ snapshot' = r.eng.snapshot
    /\ lastOp' = [ name |-> name, id |-> memoryId, args |-> args,
                   success |-> r.success, error |-> r.error, thrown |-> r.thrown,
                   embeddingFailed |-> r.embeddingFailed, data |-> r.data ]
    /\ UNCHANGED << touched, evicted, autoSave, saveInterval, saving, indexed,
                    retry,
                    pending,
                    before,
                    folders,
                    heap >>

\* the error a call ends with when the fault strikes it
FaultError(fault) ==
    IF fault.initFault # "none" THEN "Initialization failed"
    ELSE IF fault.readFault THEN "Read failed"
    ELSE "Write failed"

\* the environment can fail only a step that runs: the fault is none, or
\* the step it fails was reached and ended the call
Struck(fault, r) == fault = NoFault \/ r.error = FaultError(fault)

CreateMemory(input, fault, answer, tick) ==
    /\ nextId <= MaxIds
    /\ LET env == Env(fault, answer, nextId, now + tick)
       IN  \E r \in { createMemory(Eng, input, env) } :
           /\ Struck(fault, r)
           /\ Apply(r, "createMemory", nextId, input)
           /\ IF r.error \in { "Initialization failed", "Validation failed" }
              THEN UNCHANGED << now, nextId >>     \* neither clock nor uuid was read
              ELSE now' = now + tick /\ nextId' = nextId + 1
    /\ UNCHANGED deleted

UpdateMemory(memoryId, input, fault) ==
    /\ LET env == Env(fault, ProviderFailure, 0, now)
       IN  \E r \in { updateMemory(Eng, memoryId, input, env) } :
           /\ Struck(fault, r)
           /\ Apply(r, "updateMemory", memoryId, input)
    /\ UNCHANGED << now, nextId, deleted >>

DeleteMemory(memoryId, fault) ==
    /\ LET env == Env(fault, ProviderFailure, 0, now)
       IN  \E r \in { deleteMemory(Eng, memoryId, env) } :
           /\ Struck(fault, r)
           /\ Apply(r, "deleteMemory", memoryId, << >>)
           /\ deleted' = IF r.success THEN deleted \cup { memoryId } ELSE deleted
    /\ UNCHANGED << now, nextId >>

ReadMemories(filter, fault) ==
    /\ LET env == Env(fault, ProviderFailure, 0, now)
       IN  \E r \in { readMemories(Eng, filter, env) } :
           /\ Struck(fault, r)
           /\ Apply(r, "readMemories", 0, filter)
    /\ UNCHANGED << now, nextId, deleted >>

SemanticSearch(options, fault, answer) ==
    /\ LET env == Env(fault, answer, 0, now)
       IN  \E r \in { semanticSearch(Eng, options, env) } :
           /\ Struck(fault, r)
           /\ r.error \in { "Initialization failed", "Vector search is not enabled" }
                 => answer = ProviderFailure      \* the provider was not asked
           /\ Apply(r, "semanticSearch", 0, [ options |-> options, answer |-> answer ])
    /\ UNCHANGED << now, nextId, deleted >>

ConfigureEmbedding(dimensions, fault, answer) ==
    /\ LET env == Env(fault, answer, 0, now)
       IN  \E r \in { configureEmbedding(Eng, dimensions, env) } :
           /\ Struck(fault, r)
           /\ Apply(r, "configureEmbedding", 0, << >>)
    /\ UNCHANGED << now, nextId, deleted >>

NoOp ==
    [ name |-> "none", id |-> 0, args |-> << >>, success |-> TRUE, error |-> "",
      thrown |-> FALSE, embeddingFailed |-> FALSE, data |-> << >> ]

(***************************************************************************)
(* BaseEmbeddingProvider.withRetry.  An optional number is << >> when the  *)
(* field is undefined and << n >> when it holds n.                         *)
(***************************************************************************)
\* a || b of JavaScript for an optional number a: undefined and 0 are falsy
OrElse(a, b) == IF a = << >> \/ a[1] = 0 THEN b ELSE a[1]

DefaultMaxRetries == 3

BaseDelay == 1000

RECURSIVE Pow2(_)
Pow2(n) == IF n = 0 THEN 1 ELSE 2 * Pow2(n - 1)

\* no withRetry call has been made
NoRetry ==
    [ phase |-> "idle", configured |-> << >>, maxRetries |-> 0, attempt |-> 0,
      attempts |-> 0, errors |-> << >>, delays |-> << >>, lastError |-> "",
      result |-> "" ]

\* withRetry(operation): maxRetries = this.config.maxRetries || 3, attempt = 0
\* and the first operation() is awaited
withRetryCalled(configured) ==
    [ NoRetry EXCEPT !.phase = "operation", !.configured = configured,
                     !.maxRetries = OrElse(configured, DefaultMaxRetries),
                     !.attempts = 1 ]

\* return await operation()
operationResolved(r, value) == [ r EXCEPT !.phase = "returned", !.result = value ]

\* catch (error): break after the last attempt, otherwise wait 2^attempt s
operationRejected(r, error) ==
    LET failed == [ r EXCEPT !.lastError = error, !.errors = Append(@, error) ]
    IN  IF r.attempt = r.maxRetries
        THEN [ failed EXCEPT !.phase = "thrown" ]
        ELSE [ failed EXCEPT !.phase = "delay",
                             !.delays = Append(@, Pow2(r.attempt) * BaseDelay) ]

\* the setTimeout promise resolves: attempt++ and operation() is awaited again
delayElapsed(r) ==
    [ r EXCEPT !.phase = "operation", !.attempt = @ + 1, !.attempts = @ + 1 ]

\* the state after the constructor: nothing is loaded yet; a configuration
\* file of an earlier run may exist
\* no object has been made yet
EmptyHeap == [ objects |-> << >>, caller |-> 0, held |-> EmptyMap, stored |-> EmptyMap ]

Constructed(file, auto) ==
    /\ files = EmptyMap
    /\ cache = << >>
    /\ maxSize = MaxCache
    /\ index = EmptyIndex
    /\ vectors = << >>
    /\ isDirty = FALSE
    /\ isInitialized = FALSE
    /\ vectorEnabled = FALSE
    /\ provider = 0
    /\ configFile \in { 0, EmbeddingDim }
    /\ snapshot = file
    /\ now = 0
    /\ nextId = 1
    /\ deleted = {}
    /\ touched = EmptyMap
    /\ evicted = {}
    /\ autoSave = auto
    /\ saveInterval = auto
    /\ saving = << >>
    /\ indexed = {}
    /\ lastOp = NoOp
    /\ heap = EmptyHeap
    /\ folders = << >>
    /\ before = << >>
    /\ pending = << >>
    /\ retry = NoRetry

\* the engine's store is constructed with autoSave = true; no snapshot of an
\* earlier run exists
Init == Constructed(MissingSnapshot, TRUE)

AllIds == 1..MaxIds

PlainFilter ==
    [ searchText |-> NoText, tags |-> NoTags, type |-> NoType,
      conversationId |-> NoConversation, limit |-> NoLimit, offset |-> NoOffset ]

DefaultThreshold == (7 * One) \div 10

PlainSearch ==
    [ query |-> PetsText, limit |-> MaxLimit, threshold |-> DefaultThreshold,
      hybridSearch |-> FALSE, keywordWeight |-> 0 ]

SpecCreateInputs ==
    { [ content |-> CatsText, type |-> "global", conversationId |-> NoConversation,
        tags |-> << "pets" >>, metadata |-> EmptyMap ] } \cup InvalidCreateInputs

SpecUpdateInputs ==
    { [ content |-> PetsText, tags |-> << "Dogs" >>, metadata |-> ("topic" :> "pets") ] }
    \cup InvalidUpdateInputs

SpecAnswers == { ProviderFailure, ProviderAnswer(<< 6, 8 >>) }

SpecFaults ==
    { NoFault,
      [ NoFault EXCEPT !.initFault = "load" ],
      [ NoFault EXCEPT !.readFault = TRUE ],
      [ NoFault EXCEPT !.writeFault = "lock" ] }

\* the faults of the calls that read no file before they write or answer
\* (the read of updateMemory and deleteMemory fails as their write does)
SpecFaultsUnread == { fault \in SpecFaults : ~fault.readFault }

Next ==
    \/ \E input \in SpecCreateInputs, fault \in SpecFaults, answer \in SpecAnswers :
          CreateMemory(input, fault, answer, 1)
    \/ \E id \in AllIds, input \in SpecUpdateInputs, fault \in SpecFaultsUnread :
          UpdateMemory(id, input, fault)
    \/ \E id \in AllIds, fault \in SpecFaultsUnread : DeleteMemory(id, fault)
    \/ \E fault \in SpecFaultsUnread : ReadMemories(PlainFilter, fault)
    \/ \E fault \in SpecFaultsUnread, answer \in SpecAnswers :
          SemanticSearch(PlainSearch, fault, answer)
    \/ \E answer \in SpecAnswers : ConfigureEmbedding(EmbeddingDim, NoFault, answer)

Spec == Init /\ [][Next]_vars

(***************************************************************************)
(* Properties of the engine (Spec).                                        *)
(***************************************************************************)
\* every id some key of some dimension of the index lists
IndexedIds(idx) ==
    UNION { UNION { Range(idx[dim][key]) : key \in DOMAIN idx[dim] } : dim \in DOMAIN idx }

\* every record of every memory file
StoredMemories(fs) == UNION { Range(fs[f]) : f \in DOMAIN fs }

WriteOps == { "createMemory", "updateMemory", "deleteMemory" }

EngineOps == WriteOps \cup { "readMemories", "semanticSearch" }

\* C1: after deleteMemory(id) returned success, id is absent from the cache,
\* from every dimension of the index and from the vector store.
C1_DeletedIsGoneEverywhere ==
    \A id \in deleted :
        /\ ~CacheHas(cache, id)
        /\ id \notin IndexedIds(index)
        /\ ~HasId(vectors, id)

\* C2: with semantic search enabled, after updateMemory succeeded the vector
\* store's entry of the record has the record's new content as source text.
C2_UpdateReEmbeds ==
    ( /\ lastOp.name = "updateMemory"
      /\ lastOp.success
      /\ vectorEnabled
      /\ HasId(vectors, lastOp.id) )
    => EntryOf(vectors, lastOp.id).content = lastOp.data[1].content

\* C3: with semantic search enabled, a createMemory whose embedding failed
\* (and whose storage did not) returns success; the record is in its file,
\* in the cache and in the index, has no embedding, and the vector store
\* has no entry for it.
C3_CreateSurvivesEmbeddingFailure ==
    ( /\ lastOp.name = "createMemory"
      /\ lastOp.embeddingFailed
      /\ lastOp.error \notin { "Read failed", "Write failed" } )
    => /\ lastOp.success
       /\ Len(lastOp.data) = 1
       /\ lastOp.data[1].id = lastOp.id
       /\ lastOp.data[1].embedding = NoEmbedding
       /\ lastOp.data[1] \in StoredMemories(files)
       /\ CacheHas(cache, lastOp.id)
       /\ EntryOf(cache, lastOp.id) = lastOp.data[1]
       /\ lastOp.id \in IndexedIds(index)
       /\ ~HasId(vectors, lastOp.id)

C3_Witness ==
    /\ lastOp.name = "createMemory"
    /\ lastOp.embeddingFailed
    /\ lastOp.success
    /\ vectorEnabled

\* C4: a createMemory, updateMemory or deleteMemory whose durable write
\* failed returns a failure and leaves the cache, the index and the vector
\* store exactly as they were before the call.
C4_FailedWriteLeavesNoTrace ==
    [][ ( /\ lastOp'.name \in WriteOps
          /\ lastOp'.error = "Write failed" )
        => /\ ~lastOp'.success
           /\ cache' = cache
           /\ index' = index
           /\ vectors' = vectors ]_vars

\* C5: updateMemory (with a valid input) or deleteMemory of an id that was
\* deleted before or never existed, on an engine that initializes, returns
\* the failure 'Memory not found' and changes neither the ids the cache
\* holds, nor the index, nor the files.
C5_NotFoundChangesNothing ==
    [][ ( /\ lastOp'.name \in { "updateMemory", "deleteMemory" }
          /\ (lastOp'.id \in deleted \/ lastOp'.id >= nextId)
          /\ lastOp'.error \notin { "Initialization failed", "Validation failed" } )
        => /\ ~lastOp'.success
           /\ lastOp'.error = "Memory not found"
           /\ Range(Ids(cache')) = Range(Ids(cache))
           /\ index' = index
           /\ files' = files ]_vars

C5_Witness ==
    /\ lastOp.name \in { "updateMemory", "deleteMemory" }
    /\ lastOp.id \in deleted
    /\ lastOp.error = "Memory not found"
    /\ ~lastOp.success

\* C6: createMemory, readMemories, updateMemory, deleteMemory and
\* semanticSearch never throw: a call either succeeds or returns
\* success = false with an error message.
C6_NeverThrows ==
    lastOp.name \in EngineOps
    => /\ ~lastOp.thrown
       /\ lastOp.success <=> (lastOp.error = "")

C6_Witness ==
    /\ lastOp.name \in EngineOps
    /\ lastOp.error = "Initialization failed"
    /\ ~lastOp.success
    /\ ~lastOp.thrown

\* the keys of one map of the index that list the id
KeysListing(map, id) == { key \in DOMAIN map : id \in Range(map[key]) }

\* C13: for every record in the cache, the keys of the six maps of the
\* index that list its id are exactly the tokens of its current content, its
\* lower-cased tags, its type, its conversation id (if it has one), its
\* metadata pairs and its creation date.
C13_IndexMatchesCache ==
    \A i \in DOMAIN cache :
       LET m == cache[i]
       IN  /\ KeysListing(index.content, m.id) = Range(tokenize(m.content))
           /\ KeysListing(index.tag, m.id) = Range(TagKeys(m.tags))
           /\ KeysListing(index.type, m.id) = { m.type }
           /\ KeysListing(index.conversation, m.id) =
                 IF m.conversationId # NoConversation THEN { m.conversationId } ELSE {}
           /\ KeysListing(index.metadata, m.id) = Range(MetadataKeys(m.metadata))
           /\ KeysListing(index.date, m.id) = { DateOf(m.createdAt) }

\* a record whose content was replaced by an update is in the cache next to
\* another record
C13_Witness ==
    /\ lastOp.name = "updateMemory"
    /\ lastOp.success
    /\ lastOp.args.content # Absent
    /\ Len(cache) = 2
    /\ \E i \in DOMAIN cache :
          cache[i].id = lastOp.id /\ cache[i].content = lastOp.args.content

(***************************************************************************)
(* The cache on its own (CacheSpec): get, set, delete and setMaxSize of a  *)
(* MemoryCache, called in any order.                                       *)
(***************************************************************************)
MaxTicks == 5        \* get and set calls of one behaviour

CacheIds == 1..(MaxCache + 1)

CacheEntries == { [ id |-> id, content |-> CatsText ] : id \in CacheIds }

\* what is not the cache
EngineVars ==
    << files, index, vectors, isDirty, isInitialized, vectorEnabled, provider,
       configFile, snapshot, nextId, deleted, autoSave, saveInterval, saving,
       indexed,
       retry,
       pending,
       before,
       folders,
       heap >>

CacheResult(name, id, args, hit, data) ==
    [ name |-> name, id |-> id, args |-> args, success |-> hit, error |-> "",
      thrown |-> FALSE, embeddingFailed |-> FALSE, data |-> data ]

\* the ids that left c on the way to after
Dropped(c, after) == Range(Ids(c)) \ Range(Ids(after))

\* the touch ticks t of the ids c holds
Of(t, c) == [ id \in Range(Ids(c)) |-> t[id] ]

\* MemoryCache.get(id)
Get(id) ==
    /\ now < MaxTicks
    /\ now' = now + 1
    /\ cache' = CacheTouch(cache, id)
    /\ touched' = IF CacheHas(cache, id) THEN (id :> now') @@ touched ELSE touched
    /\ lastOp' = CacheResult("get", id, << >>, CacheHas(cache, id),
                             IF CacheHas(cache, id) THEN << EntryOf(cache, id) >>
                             ELSE << >>)
    /\ UNCHANGED << maxSize, evicted, EngineVars >>

\* MemoryCache.set(id, entry)
Set(entry) ==
    /\ now < MaxTicks
    /\ now' = now + 1
    /\ cache' = CacheSet(cache, maxSize, entry.id, entry)
    /\ touched' = Of((entry.id :> now') @@ touched, cache')
    /\ evicted' = (evicted \cup Dropped(cache, cache')) \ { entry.id }
    /\ lastOp' = CacheResult("set", entry.id, entry, TRUE, << >>)
    /\ UNCHANGED << maxSize, EngineVars >>

\* MemoryCache.delete(id)
Delete(id) ==
    /\ cache' = CacheDelete(cache, id)
    /\ lastOp' = CacheResult("delete", id, << >>, CacheHas(cache, id), << >>)
    /\ touched' = Of(touched, cache')
    /\ UNCHANGED << maxSize, now, evicted, EngineVars >>

\* MemoryCache.setMaxSize(capacity)
SetMaxSize(capacity) ==
    /\ maxSize' = capacity
    /\ cache' = CacheShrink(cache, capacity)
    /\ evicted' = evicted \cup Dropped(cache, cache')
    /\ lastOp' = CacheResult("setMaxSize", 0, capacity, TRUE, << >>)
    /\ touched' = Of(touched, cache')
    /\ UNCHANGED << now, EngineVars >>

CacheInit ==
    /\ Init
    /\ configFile = 0

CacheNext ==
    \/ \E id \in CacheIds : Get(id)
    \/ \E entry \in CacheEntries : Set(entry)
    \/ \E id \in CacheIds : Delete(id)
    \/ \E capacity \in 1..MaxCache : SetMaxSize(capacity)

CacheSpec == CacheInit /\ [][CacheNext]_vars

\* the cached id whose last get hit or set is the oldest
LeastRecentlyTouched(c, t) ==
    CHOOSE id \in Range(Ids(c)) : \A other \in Range(Ids(c)) : t[id] <= t[other]

\* C10: a set of a new id into a cache that holds capacity-many entries
\* evicts exactly one entry, the one least recently touched by a get hit or
\* a set; a get of an id that was evicted (and not set again) misses.
C10_SetEvictsLeastRecentlyUsed ==
    [][ /\ ( /\ lastOp'.name = "set"
             /\ ~CacheHas(cache, lastOp'.id)
             /\ maxSize >= 1
             /\ Len(cache) = maxSize )
           => /\ Len(cache') = Len(cache)
              /\ Range(Ids(cache')) =
                    (Range(Ids(cache)) \ { LeastRecentlyTouched(cache, touched) })
                    \cup { lastOp'.id }
        /\ ( /\ lastOp'.name = "get"
             /\ lastOp'.id \in evicted )
           => /\ ~lastOp'.success
              /\ lastOp'.data = << >> ]_vars

C10_Witness ==
    /\ lastOp.name = "get"
    /\ lastOp.id \in evicted
    /\ ~lastOp.success
    /\ Len(cache) = maxSize

(***************************************************************************)
(* The vector store on its own (VectorSpec): addVector, removeVector,     *)
(* updateVector and searchSimilar of a MemoryVectorStore, in any order.    *)
(***************************************************************************)
\* the embeddings stored and asked for: two unit vectors whose cosine is
\* 0.6, and one of another dimension
VectorEmbeddings == { << 10, 0 >>, << 6, 8 >>, << 10 >> }

\* 0.6, which the less similar pair just reaches, and the default 0.7
Thresholds == { (6 * One) \div 10, DefaultThreshold }

\* what is not the vector store
NonVectorVars ==
    << files, cache, maxSize, index, isInitialized, vectorEnabled, provider,
       configFile, snapshot, now, nextId, deleted, touched, evicted, autoSave,
       saveInterval, saving, indexed,
       retry,
       pending,
       before,
       folders,
       heap >>

VectorResult(name, id, args, success, thrown, data) ==
    [ name |-> name, id |-> id, args |-> args, success |-> success,
      error |-> IF thrown THEN "Invalid vector" ELSE "", thrown |-> thrown,
      embeddingFailed |-> FALSE, data |-> data ]

\* MemoryVectorStore.addVector(id, embedding, content, metadata)
AddVector(id, embedding, content) ==
    \E r \in { addVector(vectors, isDirty, id, embedding, content, EmptyMap, now) } :
        /\ vectors' = r.vectors
        /\ isDirty' = r.isDirty
        /\ lastOp' = VectorResult("addVector", id, embedding, ~r.threw, r.threw, << >>)
        /\ UNCHANGED NonVectorVars

\* MemoryVectorStore.removeVector(id)
RemoveVector(id) ==
    \E r \in { removeVector(vectors, isDirty, id) } :
        /\ vectors' = r.vectors
        /\ isDirty' = r.isDirty
        /\ lastOp' = VectorResult("removeVector", id, << >>, r.existed, FALSE, << >>)
        /\ UNCHANGED NonVectorVars

\* MemoryVectorStore.updateVector(id, embedding, content)
UpdateVector(id, embedding, content) ==
    \E r \in { updateVector(vectors, isDirty, id, embedding, content, EmptyMap, now) } :
        /\ vectors' = r.vectors
        /\ isDirty' = r.isDirty
        /\ lastOp' = VectorResult("updateVector", id, embedding, r.updated, r.threw, << >>)
        /\ UNCHANGED NonVectorVars

\* MemoryVectorStore.searchSimilar(queryEmbedding, limit, threshold)
SearchSimilar(queryEmbedding, limit, threshold) ==
    \E r \in { searchSimilar(vectors, queryEmbedding, limit, threshold) } :
        /\ lastOp' = VectorResult("searchSimilar", 0,
                                  [ queryEmbedding |-> queryEmbedding, limit |-> limit,
                                    threshold |-> threshold ],
                                  ~r.threw, r.threw, r.results)
        /\ UNCHANGED << vectors, isDirty, NonVectorVars >>

VectorInit ==
    /\ Init
    /\ configFile = 0

VectorNext ==
    \/ \E id \in AllIds, embedding \in VectorEmbeddings \cup { << >> } :
          AddVector(id, embedding, CatsText)
    \/ \E id \in AllIds : RemoveVector(id)
    \/ \E id \in AllIds, embedding \in VectorEmbeddings : UpdateVector(id, embedding, CatsText)
    \/ \E queryEmbedding \in VectorEmbeddings, limit \in 1..MaxLimit,
          threshold \in Thresholds :
          SearchSimilar(queryEmbedding, limit, threshold)

VectorSpec == VectorInit /\ [][VectorNext]_vars

\* entry i of vs ranks before entry j for the query q: it is more similar,
\* or as similar and inserted earlier
RanksBefore(vs, q, i, j) ==
    LET si == cosineSimilarity(q, vs[i].embedding).value
        sj == cosineSimilarity(q, vs[j].embedding).value
    IN  si > sj \/ (si = sj /\ i < j)

\* the positions of the entries of vs whose similarity to q is defined and >= t
Qualifying(vs, q, t) ==
    { i \in DOMAIN vs : /\ cosineSimilarity(q, vs[i].embedding).ok
                        /\ cosineSimilarity(q, vs[i].embedding).value >= t }

\* C7: searchSimilar(q, limit, t) returns the first limit entries of the
\* ranking of all stored entries whose cosine similarity to q is >= t, by
\* non-increasing similarity with ties in insertion order: its k-th result
\* is the entry that exactly k - 1 qualifying entries rank before; on an
\* empty store it returns the empty list.
C7_SearchSimilarIsTopOfRanking ==
    (lastOp.name = "searchSimilar" /\ ~lastOp.thrown)
    => LET q == lastOp.args.queryEmbedding
           results == lastOp.data
           qualifying == Qualifying(vectors, q, lastOp.args.threshold)
       IN  /\ lastOp.success
           /\ Len(results) = Min(lastOp.args.limit, Cardinality(qualifying))
           /\ \A k \in DOMAIN results :
                 \E i \in qualifying :
                    /\ vectors[i].id = results[k].id
                    /\ results[k].similarity = cosineSimilarity(q, vectors[i].embedding).value
                    /\ results[k].content = vectors[i].content
                    /\ Cardinality({ j \in qualifying : RanksBefore(vectors, q, j, i) }) = k - 1
           /\ (vectors = << >> => results = << >>)

\* a search that cut a tie: two entries as similar as each other qualify,
\* the limit is 1 and the one inserted first is returned
C7_Witness ==
    /\ lastOp.name = "searchSimilar"
    /\ lastOp.args.limit = 1
    /\ Len(lastOp.data) = 1
    /\ \E i, j \in Qualifying(vectors, lastOp.args.queryEmbedding, lastOp.args.threshold) :
          /\ i < j
          /\ vectors[i].id = lastOp.data[1].id
          /\ cosineSimilarity(lastOp.args.queryEmbedding, vectors[j].embedding).value
                = lastOp.data[1].similarity

(***************************************************************************)
(* Reading (ReadSpec): records are created, some in the same millisecond,  *)
(* and read with and without search criteria, offset and limit.            *)
(***************************************************************************)
LikeText == << "I", "like" >>

ReadCriteria ==
    { PlainFilter,
      [ PlainFilter EXCEPT !.searchText = LikeText ],
      [ PlainFilter EXCEPT !.type = "conversation" ] }

ReadFilters ==
    { [ criteria EXCEPT !.offset = offset, !.limit = limit ] :
        criteria \in ReadCriteria,
        offset \in { NoOffset } \cup 0..1,
        limit \in { NoLimit } \cup 0..MaxLimit }

ReadInit ==
    /\ Init
    /\ configFile = 0

ReadNext ==
    \/ \E input \in ValidCreateInputs, tick \in 0..1 :
          CreateMemory(input, NoFault, ProviderFailure, tick)
    \/ \E filter \in ReadFilters : ReadMemories(filter, NoFault)

ReadSpec == ReadInit /\ [][ReadNext]_vars

\* the record m meets the criteria of the filter
Matches(m, filter) ==
    /\ filter.searchText # NoText
          => Range(tokenize(filter.searchText)) \subseteq Range(tokenize(m.content))
    /\ filter.tags # NoTags
          => \E i \in DOMAIN filter.tags, j \in DOMAIN m.tags :
                ToLowerCase(filter.tags[i]) = ToLowerCase(m.tags[j])
    /\ filter.type # NoType => m.type = filter.type
    /\ filter.conversationId # NoConversation => m.conversationId = filter.conversationId

\* C8: readMemories returns the slice [offset, offset + limit) of the
\* matching records sorted by creation time descending: it has the length
\* of that slice, and its k-th record is a matching record that can stand
\* at place offset + k of the sorted list (at most offset + k - 1 matching
\* records are newer, at least offset + k are as new or newer).
C8_ReadIsSliceOfSorted ==
    (lastOp.name = "readMemories" /\ lastOp.success)
    => LET filter == lastOp.args
           result == lastOp.data
           matching == { m \in Range(cache) : Matches(m, filter) }
           offset == IF filter.offset = NoOffset THEN 0 ELSE filter.offset
           rest == Max(0, Cardinality(matching) - offset)
       IN  /\ Len(result) = IF filter.limit = NoLimit THEN rest ELSE Min(filter.limit, rest)
           /\ \A k \in DOMAIN result :
                 /\ result[k] \in matching
                 /\ Cardinality({ m \in matching : m.createdAt > result[k].createdAt })
                       <= offset + k - 1
                 /\ Cardinality({ m \in matching : m.createdAt >= result[k].createdAt })
                       >= offset + k
           /\ \A k, l \in DOMAIN result : k # l => result[k].id # result[l].id

\* a read that skipped the newest record and cut the rest
C8_Witness ==
    /\ lastOp.name = "readMemories"
    /\ lastOp.success
    /\ lastOp.args.offset = 1
    /\ lastOp.args.limit = 1
    /\ Len(lastOp.data) = 1
    /\ \E m \in Range(cache) : m.createdAt > lastOp.data[1].createdAt

(***************************************************************************)
(* Hybrid search (HybridSpec): an engine whose provider is configured;     *)
(* records are created with and without a vector and searched by vector    *)
(* and keyword together.                                                   *)
(***************************************************************************)
KeywordWeights == { (3 * One) \div 10, (5 * One) \div 10 }

HybridAnswers == { ProviderAnswer(<< 10, 0 >>), ProviderAnswer(<< 6, 8 >>) }

HybridSearches ==
    { [ query |-> LikeText, limit |-> limit, threshold |-> threshold,
        hybridSearch |-> TRUE, keywordWeight |-> keywordWeight ] :
        limit \in 1..MaxLimit, threshold \in Thresholds, keywordWeight \in KeywordWeights }

HybridInit ==
    /\ Init
    /\ configFile = EmbeddingDim

HybridNext ==
    \/ \E input \in ValidCreateInputs, answer \in HybridAnswers \cup { ProviderFailure } :
          CreateMemory(input, NoFault, answer, 1)
    \/ \E options \in HybridSearches, answer \in HybridAnswers :
          SemanticSearch(options, NoFault, answer)

HybridSpec == HybridInit /\ [][HybridNext]_vars

\* what the vector search of the last semanticSearch found
VectorHits ==
    searchSimilar(vectors, lastOp.args.answer.embedding, lastOp.args.options.limit,
                  lastOp.args.options.threshold).results

\* what the keyword read of the last semanticSearch found
KeywordHits == readMemories(Eng, KeywordFilter(lastOp.args.options), NoFault).data

\* C9: a hybrid semanticSearch with keyword weight w lists every id at most
\* once, with the score s*(1-w) if only the vector search found it (with
\* similarity s), w if only the keyword read found it and s*(1-w)+w if both
\* did; the list is sorted by descending score and cut to limit.
C9_HybridScoresAreAdditive ==
    ( /\ lastOp.name = "semanticSearch"
      /\ lastOp.success
      /\ lastOp.args.options.hybridSearch )
    => LET results == lastOp.data
           w == lastOp.args.options.keywordWeight
           byVector == Range(Ids(VectorHits))
           byKeyword == Range(Ids(KeywordHits))
           Score(id) ==
               IF id \in byVector /\ id \in byKeyword
               THEN (EntryOf(VectorHits, id).similarity * (One - w)) \div One + w
               ELSE IF id \in byVector
               THEN (EntryOf(VectorHits, id).similarity * (One - w)) \div One
               ELSE w
       IN  /\ Len(results) = Min(lastOp.args.options.limit,
                                 Cardinality(byVector \cup byKeyword))
           /\ \A k \in DOMAIN results :
                 /\ results[k].id \in byVector \cup byKeyword
                 /\ results[k].similarity = Score(results[k].id)
           /\ \A k, l \in DOMAIN results :
                 /\ k # l => results[k].id # results[l].id
                 /\ k < l => results[k].similarity >= results[l].similarity
           /\ \A id \in (byVector \cup byKeyword) \ Range(Ids(results)) :
                 \A k \in DOMAIN results : Score(id) <= results[k].similarity

\* a hybrid search that found one record both ways and another one by
\* one way only
C9_Witness ==
    /\ lastOp.name = "semanticSearch"
    /\ lastOp.success
    /\ lastOp.args.options.hybridSearch
    /\ \E k \in DOMAIN lastOp.data :
          /\ lastOp.data[k].id \in Range(Ids(VectorHits))
          /\ lastOp.data[k].id \in Range(Ids(KeywordHits))
    /\ \E k \in DOMAIN lastOp.data :
          lastOp.data[k].id \in Range(Ids(VectorHits)) <=>
          lastOp.data[k].id \notin Range(Ids(KeywordHits))


(***************************************************************************)
(* The index alone (IndexSpec): records are added, replaced and removed    *)
(* the way the engine does it (an id is added once, and removed with the   *)
(* record it was added with), and the index is searched by all six         *)
(* criteria.                                                               *)
(***************************************************************************)
IndexContents ==
    { [ content |-> CatsText, type |-> "global", conversationId |-> NoConversation,
        tags |-> << "pets" >>, metadata |-> EmptyMap ],
      [ content |-> DogsText, type |-> "conversation", conversationId |-> "c1",
        tags |-> << "Dogs", "dogs" >>, metadata |-> ("topic" :> "animals") ],
      [ content |-> PetsText, type |-> "global", conversationId |-> NoConversation,
        tags |-> << "dogs", "pets" >>,
        metadata |-> ("topic" :> "animals") @@ ("lang" :> "en") ] }

CreationTicks == { 1, TicksPerDay }

IndexRecords ==
    { [ id |-> id, content |-> c.content, type |-> c.type,
        conversationId |-> c.conversationId, createdAt |-> t, updatedAt |-> t,
        tags |-> c.tags, metadata |-> c.metadata, embedding |-> NoEmbedding ] :
        id \in AllIds, c \in IndexContents, t \in CreationTicks }

PlainOptions ==
    [ searchText |-> NoText, tags |-> NoTags, type |-> NoType,
      conversationId |-> NoConversation, metadata |-> NoMetadata,
      dateRange |-> NoDateRange ]

IndexSearches ==
    { PlainOptions,
      [ PlainOptions EXCEPT !.searchText = << "I" >> ],
      [ PlainOptions EXCEPT !.searchText = LikeText ],
      [ PlainOptions EXCEPT !.searchText = << "like", "Pets" >> ],
      [ PlainOptions EXCEPT !.tags = << "Dogs", "cats" >> ],
      [ PlainOptions EXCEPT !.tags = << "pets", "dogs" >> ],
      [ PlainOptions EXCEPT !.type = "global" ],
      [ PlainOptions EXCEPT !.conversationId = "c1" ],
      [ PlainOptions EXCEPT !.metadata = SomeMetadata(EmptyMap) ],
      [ PlainOptions EXCEPT !.metadata = SomeMetadata("topic" :> "animals") ],
      [ PlainOptions EXCEPT !.metadata =
                               SomeMetadata(("lang" :> "en") @@ ("topic" :> "animals")) ],
      [ PlainOptions EXCEPT !.dateRange = SomeDateRange(NoDate, NoDate) ],
      [ PlainOptions EXCEPT !.dateRange = SomeDateRange(TicksPerDay, NoDate) ],
      [ PlainOptions EXCEPT !.dateRange = SomeDateRange(1, NoDate) ],
      [ PlainOptions EXCEPT !.dateRange = SomeDateRange(NoDate, 0) ],
      [ PlainOptions EXCEPT !.searchText = LikeText, !.tags = << "pets" >>,
                            !.type = "global" ],
      [ PlainOptions EXCEPT !.searchText = LikeText, !.metadata = SomeMetadata(EmptyMap) ],
      [ PlainOptions EXCEPT !.tags = << "dogs" >>,
                            !.metadata = SomeMetadata("topic" :> "animals"),
                            !.dateRange = SomeDateRange(0, 1) ] }

NonIndexVars ==
    << files, cache, maxSize, vectors, isDirty, isInitialized, vectorEnabled, provider,
       configFile, snapshot, now, nextId, deleted, touched, evicted, autoSave,
       saveInterval, saving,
       retry,
       pending,
       before,
       folders,
       heap >>

IndexResult(name, id, args, data) ==
    [ name |-> name, id |-> id, args |-> args, success |-> TRUE, error |-> "",
      thrown |-> FALSE, embeddingFailed |-> FALSE, data |-> data ]

\* MemoryIndex.addMemory(memory), for an id the index does not hold
AddMemory(memory) ==
    /\ \A m \in indexed : m.id # memory.id
    /\ index' = addMemory(index, memory)
    /\ indexed' = indexed \cup { memory }
    /\ lastOp' = IndexResult("addMemory", memory.id, memory, << >>)
    /\ UNCHANGED NonIndexVars

\* MemoryIndex.removeMemory(memory)
RemoveMemory(memory) ==
    /\ memory \in indexed
    /\ index' = removeMemory(index, memory)
    /\ indexed' = indexed \ { memory }
    /\ lastOp' = IndexResult("removeMemory", memory.id, memory, << >>)
    /\ UNCHANGED NonIndexVars

\* MemoryIndex.updateMemory(oldMemory, newMemory)
IndexUpdateMemory(oldMemory, newMemory) ==
    /\ oldMemory \in indexed
    /\ newMemory.id = oldMemory.id
    /\ newMemory.createdAt = oldMemory.createdAt
    /\ index' = indexUpdateMemory(index, oldMemory, newMemory)
    /\ indexed' = (indexed \ { oldMemory }) \cup { newMemory }
    /\ lastOp' = IndexResult("updateMemory", newMemory.id, newMemory, << >>)
    /\ UNCHANGED NonIndexVars

\* MemoryIndex.search(options)
Search(options) ==
    /\ lastOp' = IndexResult("search", 0, options, search(index, options))
    /\ UNCHANGED << index, indexed, NonIndexVars >>

IndexInit ==
    /\ Init
    /\ configFile = 0

IndexNext ==
    \/ \E memory \in IndexRecords : AddMemory(memory)
    \/ \E memory \in indexed : RemoveMemory(memory)
    \/ \E oldMemory \in indexed :
          \E newMemory \in { r \in IndexRecords : r.id = oldMemory.id } :
             IndexUpdateMemory(oldMemory, newMemory)
    \/ \E options \in IndexSearches : Search(options)

IndexSpec == IndexInit /\ [][IndexNext]_vars

\* the lower-cased tags of a record
TagsOf(m) == { ToLowerCase(m.tags[j]) : j \in DOMAIN m.tags }

\* the record m meets every criterion the options supply, however many
\* tokens and pairs they hold
MeetsCriteria(m, options) ==
    /\ options.searchText # NoText
          => Range(tokenize(options.searchText)) \subseteq Range(tokenize(m.content))
    /\ options.tags # NoTags
          => \E i \in DOMAIN options.tags : ToLowerCase(options.tags[i]) \in TagsOf(m)
    /\ options.type # NoType => m.type = options.type
    /\ options.conversationId # NoConversation
          => m.conversationId = options.conversationId
    /\ options.metadata.given
          => \A k \in DOMAIN options.metadata.pairs :
                k \in DOMAIN m.metadata /\ m.metadata[k] = options.metadata.pairs[k]
    /\ options.dateRange.given
          => /\ options.dateRange.from # NoDate
                   => DayStart(DateOf(m.createdAt)) >= options.dateRange.from
             /\ options.dateRange.to # NoDate
                   => DayStart(DateOf(m.createdAt)) <= options.dateRange.to

\* the options supply a criterion
Supplied(options) ==
    \/ options.searchText # NoText
    \/ options.tags # NoTags
    \/ options.type # NoType
    \/ options.conversationId # NoConversation
    \/ options.metadata.given
    \/ options.dateRange.given

\* the options hold a text without a token or a metadata object without a pair
Keyless(options) ==
    \/ options.searchText # NoText /\ tokenize(options.searchText) = << >>
    \/ options.metadata.given /\ DOMAIN options.metadata.pairs = {}

C12_AddThenRemoveRestores ==
    [][ lastOp'.name = "addMemory" => removeMemory(index', lastOp'.args) = index ]_vars

\* a record was added whose keys are partly new and partly shared with an
\* indexed record
C12_Witness ==
    /\ lastOp.name = "addMemory"
    /\ Cardinality(indexed) = 2
    /\ \E m \in indexed :
          /\ m.id # lastOp.id
          /\ m.type = lastOp.args.type
          /\ m.content # lastOp.args.content

(***************************************************************************)
(* The vector store and its snapshot file (StoreSpec): a store constructed *)
(* without autosave, next to a snapshot file of an earlier run, and called *)
(* by one caller that awaits each call before the next one.                *)
(***************************************************************************)
MaxSaves == 2        \* save() calls in flight at one time

StoredEmbedding == << 6, 8 >>

\* the metadata the entry of an id is added with: the first id is that of a
\* global record, whose conversationId is undefined
StoreMetadata(id) ==
    IF id = 1 THEN [ type |-> "global", conversationId |-> NoConversation ]
    ELSE [ type |-> "conversation", conversationId |-> "c1" ]

\* an element of a snapshot written by addVector and save
GoodElement(id) ==
    JsonObject([ id |-> id, embedding |-> StoredEmbedding, content |-> CatsText,
                 metadata |-> EmptyMap, createdAt |-> 0, updatedAt |-> 0 ])

\* the snapshot files an earlier run, a crash or an editor can leave
EarlierSnapshots ==
    { MissingSnapshot,
      TruncatedSnapshot,
      [ exists |-> TRUE, format |-> "misshapen", entries |-> << >> ],
      WrittenSnapshot(<< GoodElement(1) >>),
      WrittenSnapshot(<< [ GoodElement(1) EXCEPT !.id = NoId ],
                         GoodElement(1),
                         [ GoodElement(2) EXCEPT !.content = << >> ] >>),
      WrittenSnapshot(<< [ GoodElement(1) EXCEPT !.embedding = NoEmbedding ],
                         GoodElement(2) >>),
      WrittenSnapshot(<< GoodElement(1), JsonNull, GoodElement(2) >>) }

StoreResult(name, args, success, thrown, error, data) ==
    [ name |-> name, id |-> 0, args |-> args, success |-> success, error |-> error,
      thrown |-> thrown, embeddingFailed |-> FALSE, data |-> data ]

NonStoreVars ==
    << files, cache, maxSize, index, isInitialized, vectorEnabled, provider, configFile,
       now, nextId, deleted, touched, evicted, indexed,
       retry,
       pending,
       before,
       folders,
       heap >>

\* MemoryVectorStore.addVector(id, embedding, content, metadata)
AddVectorWith(id, embedding, content, metadata) ==
    \E r \in { addVector(vectors, isDirty, id, embedding, content, metadata, now) } :
        /\ vectors' = r.vectors
        /\ isDirty' = r.isDirty
        /\ lastOp' = VectorResult("addVector", id, embedding, ~r.threw, r.threw, << >>)
        /\ UNCHANGED NonVectorVars

\* MemoryVectorStore.clear()
Clear ==
    /\ vectors' = clear(vectors, isDirty).vectors
    /\ isDirty' = clear(vectors, isDirty).isDirty
    /\ lastOp' = StoreResult("clear", << >>, TRUE, FALSE, "", << >>)
    /\ UNCHANGED NonVectorVars

\* MemoryVectorStore.save() is called: it awaits fs.mkdir
Save ==
    /\ Len(saving) < MaxSaves
    /\ saving' = Append(saving, saveCalled("save"))
    /\ UNCHANGED << vectors, isDirty, snapshot, autoSave, saveInterval, lastOp,
                    NonStoreVars >>

\* what the caller of a save gets when it fails: save() rethrows; the timer
\* callback and destroy() catch and log
SaveFailure(origin) ==
    StoreResult("save", origin, FALSE, origin = "save",
                IF origin = "save" THEN "Save failed" ELSE "", << >>)

\* fs.mkdir of the save at place i resolves (the data is taken and
\* fs.writeFile is called) or rejects
SaveMkdir(i, ok) ==
    /\ i \in DOMAIN saving
    /\ saving[i].phase = "mkdir"
    /\ IF ok
       THEN /\ saving' = saveWrites(saving, i, vectors)
            /\ UNCHANGED lastOp
       ELSE /\ saving' = Settled(saving, i)
            /\ lastOp' = SaveFailure(saving[i].origin)
    /\ UNCHANGED << vectors, isDirty, snapshot, autoSave, saveInterval, NonStoreVars >>

\* fs.writeFile of the save at place i resolves (the flag is cleared) or
\* rejects (the file is as before, or cut short)
SaveWrite(i, ok, file) ==
    /\ i \in DOMAIN saving
    /\ saving[i].phase = "write"
    /\ saving' = Settled(saving, i)
    /\ IF ok
       THEN /\ snapshot' = WrittenSnapshot(saving[i].data)
            /\ isDirty' = FALSE
            /\ lastOp' = StoreResult("save", saving[i].origin, TRUE, FALSE, "",
                                     saving[i].data)
       ELSE /\ snapshot' = file
            /\ file \in { snapshot, TruncatedSnapshot }
            /\ lastOp' = SaveFailure(saving[i].origin)
            /\ UNCHANGED isDirty
    /\ UNCHANGED << vectors, autoSave, saveInterval, NonStoreVars >>

\* MemoryVectorStore.load()
Load ==
    \E r \in { loadFile(vectors, isDirty, snapshot) } :
        /\ vectors' = r.vectors
        /\ isDirty' = r.isDirty
        /\ lastOp' = StoreResult("load", << >>, ~r.threw, r.threw,
                                 IF r.threw THEN "Load failed" ELSE "", << >>)
        /\ UNCHANGED NonVectorVars

StoreInit ==
    /\ \E file \in EarlierSnapshots : Constructed(file, FALSE)
    /\ configFile = 0

\* the next call of the caller, made when no call is in flight
StoreCall ==
    \/ \E id \in AllIds : AddVectorWith(id, StoredEmbedding, CatsText, StoreMetadata(id))
    \/ UpdateVector(MaxIds, << 10, 0 >>, CatsText)
    \/ \E id \in AllIds : RemoveVector(id)
    \/ Clear
    \/ Save
    \/ Load

StoreNext ==
    \/ saving = << >> /\ StoreCall
    \/ \E ok \in BOOLEAN : SaveMkdir(1, ok)
    \/ \E ok \in BOOLEAN, file \in { snapshot, TruncatedSnapshot } : SaveWrite(1, ok, file)

StoreSpec == StoreInit /\ [][StoreNext]_vars

\* the value of a property of a metadata object; undefined if it has none
PropertyOf(metadata, k) == IF k \in DOMAIN metadata THEN metadata[k] ELSE NoConversation

\* two metadata objects whose properties have the same values
SameMetadata(a, b) ==
    \A k \in DOMAIN a \cup DOMAIN b : PropertyOf(a, k) = PropertyOf(b, k)

\* C14: when a save() has completed, load() into a fresh store succeeds and
\* yields the ids of the saved store, each with the embedding (quantized by
\* addVector), the content and the metadata it has in the saved store.
C14_SaveThenLoadRestores ==
    (lastOp.name = "save" /\ lastOp.success)
    => LET fresh == loadFile(<< >>, FALSE, snapshot)
       IN  /\ ~fresh.threw
           /\ Range(Ids(fresh.vectors)) = Range(Ids(vectors))
           /\ \A id \in Range(Ids(vectors)) :
                 /\ EntryOf(fresh.vectors, id).embedding = EntryOf(vectors, id).embedding
                 /\ EntryOf(fresh.vectors, id).content = EntryOf(vectors, id).content
                 /\ SameMetadata(EntryOf(fresh.vectors, id).metadata,
                                 EntryOf(vectors, id).metadata)

\* a store of two entries, one with an undefined metadata property, was saved
C14_Witness ==
    /\ lastOp.name = "save"
    /\ lastOp.success
    /\ Len(vectors) = 2
    /\ \E i \in DOMAIN vectors :
          /\ "conversationId" \in DOMAIN vectors[i].metadata
          /\ vectors[i].metadata.conversationId = NoConversation
    /\ \E i \in DOMAIN vectors : vectors[i].embedding = << 10, 0 >>

\* C15 as stated: load() with no snapshot file completes without error and
\* leaves the store with zero entries.
C15_LoadOfMissingSnapshotEmpties ==
    (lastOp.name = "load" /\ ~snapshot.exists)
    => (lastOp.success /\ ~lastOp.thrown /\ vectors = << >>)

\* the elements of a snapshot that have an id, an embedding and a content
WellFormed(entries) ==
    { i \in DOMAIN entries :
        /\ entries[i] # JsonNull
        /\ entries[i].id # NoId
        /\ entries[i].embedding # NoEmbedding
        /\ entries[i].content # << >> }

\* C16 as stated: load() of a snapshot whose vectors array holds malformed
\* elements does not fail, and the store then holds exactly the well-formed
\* elements of the array.
C16_LoadSkipsMalformedEntries ==
    (lastOp.name = "load" /\ snapshot.exists /\ snapshot.format = "ok")
    => /\ lastOp.success
       /\ ~lastOp.thrown
       /\ Range(Ids(vectors)) = { snapshot.entries[i].id : i \in WellFormed(snapshot.entries) }

(***************************************************************************)
(* The engine next to a snapshot file of an earlier run (CorruptSpec):     *)
(* records are created and read; no step of the environment fails.         *)
(***************************************************************************)
CorruptInit == \E file \in EarlierSnapshots : Constructed(file, TRUE)

CorruptNext ==
    \/ \E input \in ValidCreateInputs, answer \in SpecAnswers :
          CreateMemory(input, NoFault, answer, 1)
    \/ ReadMemories(PlainFilter, NoFault)

CorruptSpec == CorruptInit /\ [][CorruptNext]_vars

\* the file exists and is unparseable, misshapen, or holds an element that
\* is not a well-formed entry
Malformed(file) ==
    /\ file.exists
    /\ \/ file.format # "ok"
       \/ WellFormed(file.entries) # DOMAIN file.entries

\* C17 as stated: with a malformed snapshot file on disk, a createMemory or
\* readMemories call with valid arguments finds the engine initialized and
\* succeeds.
C17_MalformedDataIsSkipped ==
    (Malformed(snapshot) /\ lastOp.name \in { "createMemory", "readMemories" })
    => (isInitialized /\ lastOp.success)

(***************************************************************************)
(* The store, its timer and its callers (FlushSpec): the methods of a      *)
(* store are called, the autosave timer fires and destroy() is called      *)
(* while earlier save() calls are still at one of their awaits.            *)
(***************************************************************************)
\* the callback of setInterval: if (this.isDirty) this.save().catch(...)
AutosaveTick ==
    /\ saveInterval
    /\ isDirty => Len(saving) < MaxSaves
    /\ saving' = IF isDirty THEN Append(saving, saveCalled("autosave")) ELSE saving
    /\ lastOp' = StoreResult("autosave", << >>, TRUE, FALSE, "", << >>)
    /\ UNCHANGED << vectors, isDirty, snapshot, autoSave, saveInterval, NonStoreVars >>

\* MemoryVectorStore.destroy()
Destroy ==
    \E r \in { destroy(saveInterval, isDirty, autoSave) } :
        /\ r.saves => Len(saving) < MaxSaves
        /\ saveInterval' = r.saveInterval
        /\ saving' = IF r.saves THEN Append(saving, saveCalled("destroy")) ELSE saving
        /\ lastOp' = StoreResult("destroy", << >>, TRUE, FALSE, "", << >>)
        /\ UNCHANGED << vectors, isDirty, snapshot, autoSave, NonStoreVars >>

FlushInit ==
    /\ \E auto \in BOOLEAN : Constructed(MissingSnapshot, auto)
    /\ configFile = 0

FlushNext ==
    \/ AddVector(1, StoredEmbedding, CatsText)
    \/ UpdateVector(1, << 10, 0 >>, CatsText)
    \/ RemoveVector(1)
    \/ Clear
    \/ Load
    \/ Save
    \/ \E i \in 1..MaxSaves, ok \in BOOLEAN : SaveMkdir(i, ok)
    \/ \E i \in 1..MaxSaves, ok \in BOOLEAN : SaveWrite(i, ok, snapshot)
    \/ AutosaveTick
    \/ Destroy

FlushSpec == FlushInit /\ [][FlushNext]_vars

Mutations == { "addVector", "updateVector", "removeVector", "clear" }

\* C18: a step in which addVector, updateVector or removeVector changed
\* the map, or clear ran, leaves the dirty flag set; and a step that clears
\* the flag is the completion of a save() or of a load().
C18_DirtyFlagTracksMutations ==
    [][ /\ ( /\ lastOp'.name \in Mutations
             /\ lastOp'.success
             /\ saving' = saving ) => isDirty'
        /\ vectors' # vectors => (isDirty' \/ lastOp'.name = "load")
        /\ (isDirty /\ ~isDirty')
              => /\ lastOp'.name \in { "save", "load" }
                 /\ lastOp'.success
                 /\ lastOp'.name = "save" => Len(saving') < Len(saving) ]_vars

\* an entry was removed after a save had cleared the flag
C18_Witness ==
    /\ lastOp.name = "removeVector"
    /\ lastOp.success
    /\ isDirty
    /\ snapshot.exists
    /\ snapshot.format = "ok"
    /\ snapshot.entries # << >>

\* C19 as stated: at most one save() is in flight at any time.
C19_SingleFlightSave == Len(saving) <= 1

\* the saves in flight that the timer callback started
ByTimer(calls) == { i \in DOMAIN calls : calls[i].origin = "autosave" }

\* C20: destroy() clears the timer and calls save() exactly if the store is
\* dirty and autosave is enabled; once the timer is cleared it is never set
\* again and its callback never runs; and a failure of the save that
\* destroy() called is not thrown to anyone.
C20_DestroyStopsAutosave ==
    [][ /\ ( /\ lastOp'.name = "destroy"
             /\ saving' \in { saving, Append(saving, saveCalled("destroy")) } )
           => /\ ~saveInterval'
              /\ saving' = IF isDirty /\ autoSave
                           THEN Append(saving, saveCalled("destroy"))
                           ELSE saving
        /\ ~saveInterval
              => /\ ~saveInterval'
                 /\ lastOp'.name # "autosave"
                 /\ Cardinality(ByTimer(saving')) <= Cardinality(ByTimer(saving))
        /\ (lastOp'.name = "save" /\ lastOp'.args = "destroy") => ~lastOp'.thrown ]_vars

\* the save that destroy() called has failed, after the timer was cleared
C20_Witness ==
    /\ lastOp.name = "save"
    /\ lastOp.args = "destroy"
    /\ ~lastOp.success
    /\ ~saveInterval
    /\ autoSave
    /\ isDirty

\* C21: once isInitialized is true it stays true, and no later operation
\* loads again: a readMemories call without criteria leaves cache, index,
\* vector store and dirty flag as they are, and a createMemory call keeps
\* every entry of the vector store that it does not write itself and never
\* clears the dirty flag.
C21_ReadyIsStable ==
    [][ isInitialized
        => /\ isInitialized'
           /\ lastOp'.name = "readMemories"
                 => /\ cache' = cache
                    /\ index' = index
                    /\ vectors' = vectors
                    /\ isDirty' = isDirty
           /\ lastOp'.name = "createMemory"
                 => /\ isDirty => isDirty'
                    /\ \A i \in DOMAIN vectors :
                          \/ vectors'[i] = vectors[i]
                          \/ vectors'[i].id = lastOp'.id ]_vars

\* the engine is ready, a snapshot was loaded, and the store has been
\* written to since
C21_Witness ==
    /\ isInitialized
    /\ lastOp.name = "readMemories"
    /\ snapshot.exists
    /\ isDirty
    /\ Len(vectors) = 2
    /\ Len(cache) = 2

(***************************************************************************)
(* Restarts (RestartSpec): the process ends and a new MemoryManager is     *)
(* constructed over the same storage directory, with a cache capacity of   *)
(* the caller's choice.                                                    *)
(***************************************************************************)
\* new MemoryManager(storagePath, cacheSize) in a new process: what is on
\* disk stays, what was in memory is gone
Restart(cacheSize) ==
    /\ cache' = << >>
    /\ maxSize' = cacheSize
    /\ index' = EmptyIndex
    /\ vectors' = << >>
    /\ isDirty' = FALSE
    /\ isInitialized' = FALSE
    /\ vectorEnabled' = FALSE
    /\ provider' = 0
    /\ autoSave' = TRUE
    /\ saveInterval' = TRUE
    /\ saving' = << >>
    /\ touched' = EmptyMap
    /\ evicted' = {}
    /\ indexed' = {}
    /\ lastOp' = [ NoOp EXCEPT !.name = "constructor", !.args = cacheSize ]
    /\ retry' = NoRetry
    /\ pending' = << >>
    /\ before' = << >>
    /\ heap' = EmptyHeap
    /\ UNCHANGED << files, configFile, snapshot, now, nextId, deleted, folders >>

RestartInit ==
    /\ Init
    /\ configFile = 0

RestartNext ==
    \/ \E input \in ValidCreateInputs : CreateMemory(input, NoFault, ProviderFailure, 1)
    \/ \E id \in AllIds : DeleteMemory(id, NoFault)
    \/ ReadMemories(PlainFilter, NoFault)
    \/ \E cacheSize \in 1..MaxCache : Restart(cacheSize)

RestartSpec == RestartInit /\ [][RestartNext]_vars

\* C22 as stated: when a readMemories call has initialized the engine,
\* every record of the memory files is in the cache and in the index.
C22_InitializationLoadsEverything ==
    [][ (~isInitialized /\ isInitialized' /\ lastOp'.name = "readMemories")
        => \A m \in StoredMemories(files') :
              /\ HasId(cache', m.id)
              /\ m.id \in IndexedIds(index') ]_vars

(***************************************************************************)
(* Retries of an embedding call (RetrySpec): one withRetry call at a time, *)
(* each awaited operation() resolving or rejecting as the provider's       *)
(* service decides.                                                        *)
(***************************************************************************)
MaxRetries == 2

ConfiguredRetries == { << >> } \cup { << n >> : n \in 0..MaxRetries }

ProviderErrors == { "timeout", "status 500" }

NonRetryVars ==
    << files, cache, maxSize, index, vectors, isDirty, isInitialized, vectorEnabled,
       provider, configFile, snapshot, now, nextId, deleted, touched, evicted,
       autoSave, saveInterval, saving, indexed, pending, before, folders, heap,
       lastOp >>

WithRetry(configured) ==
    /\ retry.phase \in { "idle", "returned", "thrown" }
    /\ retry' = withRetryCalled(configured)
    /\ UNCHANGED NonRetryVars

OperationResolves ==
    /\ retry.phase = "operation"
    /\ retry' = operationResolved(retry, "embedding")
    /\ UNCHANGED NonRetryVars

OperationRejects(error) ==
    /\ retry.phase = "operation"
    /\ retry' = operationRejected(retry, error)
    /\ UNCHANGED NonRetryVars

DelayElapses ==
    /\ retry.phase = "delay"
    /\ retry' = delayElapsed(retry)
    /\ UNCHANGED NonRetryVars

RetryInit ==
    /\ Init
    /\ configFile = 0

RetryNext ==
    \/ \E configured \in ConfiguredRetries : WithRetry(configured)
    \/ OperationResolves
    \/ \E error \in ProviderErrors : OperationRejects(error)
    \/ DelayElapses

RetrySpec == RetryInit /\ [][RetryNext]_vars

\* the retries the configuration asks for: the default when none is given
RetriesAskedFor ==
    IF retry.configured = << >> THEN DefaultMaxRetries ELSE retry.configured[1]

\* C23 as stated: a call makes at most maxRetries + 1 attempts (3 + 1 when
\* maxRetries is not configured), waits 1 s before the first retry and twice
\* the previous wait before each further one, returns at its first success
\* and, after the last failed attempt, raises the last error.
C23_RetriesAreBoundedWithBackoff ==
    /\ retry.attempts <= RetriesAskedFor + 1
    /\ \A i \in DOMAIN retry.delays :
          retry.delays[i] = IF i = 1 THEN BaseDelay ELSE 2 * retry.delays[i - 1]
    /\ retry.phase = "returned" => retry.attempts = Len(retry.errors) + 1
    /\ retry.phase = "thrown"
          => /\ retry.attempts = RetriesAskedFor + 1
             /\ retry.lastError = retry.errors[Len(retry.errors)]

(***************************************************************************)
(* Overlapping calls (ConcurrentSpec).  updateMemory and deleteMemory are  *)
(* async: each runs to its next await and leaves the thread to whichever   *)
(* call is ready.  A call is modelled at the two awaits where it waits for *)
(* the disk: readJsonFile and writeJsonFile.  Nothing in MemoryManager or  *)
(* in the request handler makes a second call wait for the first.          *)
(***************************************************************************)
MaxCalls == 2

\* a call on its way: oldMemory and newMemory hold at most one record
CallOf(name, memoryId, input) ==
    [ name |-> name, id |-> memoryId, input |-> input, at |-> 0, phase |-> "read",
      oldMemory |-> << >>, newMemory |-> << >>, data |-> << >>,
      success |-> FALSE, error |-> "" ]

\* updateMemory and deleteMemory from await this.initialize() (the engine is
\* ready) to the call of readJsonFile
callBegun(e, name, memoryId, input, time) ==
    LET c == [ CallOf(name, memoryId, input) EXCEPT !.at = time ]
    IN  IF name = "updateMemory" /\ input.content = << >>
        THEN [ c EXCEPT !.phase = "done", !.error = "Validation failed" ]
        ELSE IF ~CacheHas(e.cache, memoryId)
        THEN [ c EXCEPT !.phase = "done", !.error = "Memory not found" ]
        ELSE
        LET oldMemory == EntryOf(e.cache, memoryId)
            updatedMemory ==
                [ oldMemory EXCEPT
                    !.content = IF input.content # Absent THEN input.content ELSE @,
                    !.tags = IF input.tags # Absent THEN input.tags ELSE @,
                    !.metadata = MergeMetadata(@, input.metadata),
                    !.updatedAt = time ]
        IN  IF name = "updateMemory"
            THEN [ c EXCEPT !.oldMemory = << oldMemory >>, !.newMemory = << updatedMemory >> ]
            ELSE [ c EXCEPT !.oldMemory = << oldMemory >> ]

\* readJsonFile resolves: the array the call will write
readSettled(e, c) ==
    LET filePath == getMemoryFilePath(c.oldMemory[1])
        memories == readJsonFile(e.files, filePath)
    IN  [ c EXCEPT !.phase = "write",
                   !.data = IF c.name = "updateMemory"
                            THEN [ i \in DOMAIN memories |->
                                     IF memories[i].id = c.id THEN c.newMemory[1]
                                     ELSE memories[i] ]
                            ELSE WithoutId(memories, c.id) ]

\* writeJsonFile resolves: the file holds the array, then cache and index
\* are brought up to date
writeSettled(e, c) ==
    LET filePath == getMemoryFilePath(c.oldMemory[1])
        written == [ e EXCEPT !.files = writeJsonFile(@, filePath, c.data, "none") ]
    IN  IF c.name = "updateMemory"
        THEN [ written EXCEPT
                 !.cache = CacheSet(@, e.maxSize, c.id, c.newMemory[1]),
                 !.index = indexUpdateMemory(@, c.oldMemory[1], c.newMemory[1]) ]
        ELSE [ written EXCEPT !.cache = CacheDelete(@, c.id),
                              !.index = removeMemory(@, c.oldMemory[1]) ]

AllDone == \A i \in DOMAIN pending : pending[i].phase = "done"

NonCallVars ==
    << vectors, isDirty, isInitialized, vectorEnabled, provider, configFile, snapshot,
       nextId, touched, evicted, autoSave, saveInterval, saving, indexed, retry, folders,
       heap,
       lastOp >>

\* a call starts while at most one other call is on its way
Begin(name, memoryId, input, tick) ==
    /\ isInitialized
    /\ now + tick <= MaxTicks
    /\ \/ AllDone /\ pending' = << callBegun(Eng, name, memoryId, input, now + tick) >>
                  /\ before' = << Eng >>
       \/ ~AllDone /\ Len(pending) < MaxCalls
                   /\ pending' = Append(pending, callBegun(Eng, name, memoryId, input, now + tick))
                   /\ before' = before
    /\ cache' = CacheTouch(cache, memoryId)
    /\ now' = now + tick
    /\ UNCHANGED << files, maxSize, index, deleted, NonCallVars >>

ReadSettles(i) ==
    /\ i \in DOMAIN pending
    /\ pending[i].phase = "read"
    /\ pending' = [ pending EXCEPT ![i] = readSettled(Eng, @) ]
    /\ UNCHANGED << files, cache, maxSize, index, now, deleted, before, NonCallVars >>

WriteSettles(i) ==
    /\ i \in DOMAIN pending
    /\ pending[i].phase = "write"
    /\ \E e \in { writeSettled(Eng, pending[i]) } :
           /\ files' = e.files
           /\ cache' = e.cache
           /\ index' = e.index
    /\ pending' = [ pending EXCEPT ![i] = [ @ EXCEPT !.phase = "done", !.success = TRUE ] ]
    /\ deleted' = IF pending[i].name = "deleteMemory" THEN deleted \cup { pending[i].id }
                  ELSE deleted
    /\ UNCHANGED << maxSize, now, before, NonCallVars >>

ConcurrentInit ==
    /\ Init
    /\ configFile = 0

ConcurrentNext ==
    \/ /\ pending = << >>
       /\ \E input \in ValidCreateInputs : CreateMemory(input, NoFault, ProviderFailure, 1)
    \/ \E memoryId \in AllIds, input \in ValidUpdateInputs :
          Begin("updateMemory", memoryId, input, 1)
    \/ \E memoryId \in AllIds : Begin("deleteMemory", memoryId, Absent, 1)
    \/ \E i \in 1..MaxCalls : ReadSettles(i)
    \/ \E i \in 1..MaxCalls : WriteSettles(i)

ConcurrentSpec == ConcurrentInit /\ [][ConcurrentNext]_vars

\* the engine after call c has run alone, from start to finish, on engine e
RunAlone(e, c) ==
    LET env == Env(NoFault, ProviderFailure, 0, c.at)
    IN  IF c.name = "updateMemory" THEN updateMemory(e, c.id, c.input, env).eng
        ELSE deleteMemory(e, c.id, env).eng

\* what the claim compares: the cache entry of the record, the index keys
\* that list it, and the memory files
OutcomeFor(e, memoryId) ==
    [ entry |-> IF CacheHas(e.cache, memoryId) THEN << EntryOf(e.cache, memoryId) >>
                ELSE << >>,
      keys |-> [ dim \in DOMAIN e.index |-> KeysListing(e.index[dim], memoryId) ],
      files |-> e.files ]

\* C24 as stated: when two calls on one record have both started before
\* the first finished and both have finished, the cache entry, the index
\* keys and the file content are those of one of the two serial orders.
C24_OverlappingCallsAreSerializable ==
    (/\ Len(pending) = 2
     /\ AllDone
     /\ pending[1].id = pending[2].id)
    => \/ OutcomeFor(Eng, pending[1].id)
            = OutcomeFor(RunAlone(RunAlone(before[1], pending[1]), pending[2]), pending[1].id)
       \/ OutcomeFor(Eng, pending[1].id)
            = OutcomeFor(RunAlone(RunAlone(before[1], pending[2]), pending[1]), pending[1].id)

(***************************************************************************)
(* The semantic_search tool (ToolSpec): MemoryTools.semanticSearch builds  *)
(* the options of MemoryManager.semanticSearch from the caller's           *)
(* arguments.  An argument the caller omits is << >>.                      *)
(***************************************************************************)
DefaultLimit == 10

DefaultKeywordWeight == (3 * One) \div 10

\* the options object built from args
toolOptions(args) ==
    [ query |-> args.query,
      limit |-> OrElse(args.limit, DefaultLimit),
      threshold |-> OrElse(args.threshold, DefaultThreshold),
      hybridSearch |-> args.hybridSearch,
      keywordWeight |-> OrElse(args.keywordWeight, DefaultKeywordWeight) ]

\* MemoryTools.semanticSearch
semanticSearchTool(e, args, env) == semanticSearch(e, toolOptions(args), env)

ToolArgs ==
    { [ query |-> LikeText, limit |-> limit, threshold |-> threshold,
        hybridSearch |-> FALSE, keywordWeight |-> << >> ] :
        limit \in { << >>, << 1 >> },
        threshold \in { << >>, << 0 >>, << One \div 2 >> } }
    \cup
    { [ query |-> LikeText, limit |-> << >>, threshold |-> threshold,
        hybridSearch |-> TRUE, keywordWeight |-> keywordWeight ] :
        threshold \in { << >>, << 0 >> },
        keywordWeight \in { << >>, << 0 >>, << One \div 2 >> } }

SemanticSearchTool(args, answer) ==
    /\ LET env == Env(NoFault, answer, 0, now)
       IN  \E r \in { semanticSearchTool(Eng, args, env) } :
              Apply(r, "semantic_search", 0, [ supplied |-> args, answer |-> answer ])
    /\ UNCHANGED << now, nextId, deleted >>

ToolInit ==
    /\ Init
    /\ configFile = EmbeddingDim

ToolNext ==
    \/ \E input \in ValidCreateInputs, answer \in HybridAnswers \cup { ProviderFailure } :
          CreateMemory(input, NoFault, answer, 1)
    \/ \E args \in ToolArgs, answer \in HybridAnswers : SemanticSearchTool(args, answer)

ToolSpec == ToolInit /\ [][ToolNext]_vars

\* the options the documentation promises for the arguments: what the caller
\* supplied, and the default for what was omitted
OptionsAskedFor(args) ==
    [ query |-> args.query,
      limit |-> IF args.limit = << >> THEN DefaultLimit ELSE args.limit[1],
      threshold |-> IF args.threshold = << >> THEN DefaultThreshold ELSE args.threshold[1],
      hybridSearch |-> args.hybridSearch,
      keywordWeight |-> IF args.keywordWeight = << >> THEN DefaultKeywordWeight
                        ELSE args.keywordWeight[1] ]

\* C25 as stated: the semantic_search tool answers with what a search with
\* exactly the supplied threshold and keywordWeight (0 included) finds, and
\* with the defaults 0.7 and 0.3 only for an omitted argument.
C25_ToolUsesSuppliedValues ==
    (lastOp.name = "semantic_search" /\ lastOp.success)
    => lastOp.data
         = semanticSearch(Eng, OptionsAskedFor(lastOp.args.supplied),
                          Env(NoFault, lastOp.args.answer, 0, now)).data

(***************************************************************************)
(* Reads by search text (TextSpec): records with tags and contents that    *)
(* share no word are read with a search text of one word.                  *)
(***************************************************************************)
SearchWords == { "pets", "cats", "like", "Dogs", "animals" }

TextFilters == { [ PlainFilter EXCEPT !.searchText = << w >> ] : w \in SearchWords }

TextInit ==
    /\ Init
    /\ configFile = 0

TextNext ==
    \/ \E input \in ValidCreateInputs : CreateMemory(input, NoFault, ProviderFailure, 1)
    \/ \E memoryId \in AllIds, input \in ValidUpdateInputs :
          UpdateMemory(memoryId, input, NoFault)
    \/ \E filter \in TextFilters : ReadMemories(filter, NoFault)

TextSpec == TextInit /\ [][TextNext]_vars

\* the content of m contains the text
ContentContains(m, text) ==
    Range(tokenize(text)) \subseteq Range(tokenize(m.content))

\* one of the tags of m equals the text
TagEquals(m, text) == \E j \in DOMAIN m.tags : << m.tags[j] >> = text

\* C26 as stated: a read with a search text returns every record whose
\* content contains the text and every record one of whose tags equals it.
C26_SearchTextMatchesContentOrTags ==
    (lastOp.name = "readMemories" /\ lastOp.success /\ lastOp.args.searchText # NoText)
    => \A i \in DOMAIN cache :
          (ContentContains(cache[i], lastOp.args.searchText)
             \/ TagEquals(cache[i], lastOp.args.searchText))
          => cache[i].id \in Range(Ids(lastOp.data))

(***************************************************************************)
(* Updates (UpdateSpec): records are created and then updated with a new   *)
(* content and a metadata key no record was created with, and with new     *)
(* tags and a metadata key a record may have.                              *)
(***************************************************************************)
PartialUpdateInputs ==
    { [ content |-> PetsText, tags |-> Absent, metadata |-> ("source" :> "chat") ],
      [ content |-> Absent, tags |-> << "Dogs" >>, metadata |-> ("topic" :> "pets") ] }

UpdateInit ==
    /\ Init
    /\ configFile = 0

UpdateNext ==
    \/ \E input \in ValidCreateInputs : CreateMemory(input, NoFault, ProviderFailure, 1)
    \/ \E memoryId \in AllIds, input \in PartialUpdateInputs :
          UpdateMemory(memoryId, input, NoFault)

UpdateSpec == UpdateInit /\ [][UpdateNext]_vars

\* C27: a successful updateMemory replaces the content and the tags only
\* when they are given, merges the metadata key by key (a supplied key
\* overrides, every other key of the record is kept), sets updatedAt to the
\* time of the call and leaves id, type, conversationId and createdAt as
\* they were.
C27_UpdateChangesOnlyWhatIsSupplied ==
    [][ (lastOp'.name = "updateMemory" /\ lastOp'.success)
        => LET input == lastOp'.args
               old == EntryOf(cache, lastOp'.id)
               new == EntryOf(cache', lastOp'.id)
           IN  /\ new.content = IF input.content = Absent THEN old.content
                                ELSE input.content
               /\ new.tags = IF input.tags = Absent THEN old.tags ELSE input.tags
               /\ DOMAIN new.metadata = DOMAIN old.metadata \cup DOMAIN input.metadata
               /\ \A key \in DOMAIN new.metadata :
                     new.metadata[key] = IF key \in DOMAIN input.metadata
                                         THEN input.metadata[key]
                                         ELSE old.metadata[key]
               /\ new.updatedAt = now'
               /\ new.id = old.id
               /\ new.type = old.type
               /\ new.conversationId = old.conversationId
               /\ new.createdAt = old.createdAt
               /\ lastOp'.data = << new >>
               /\ new \in StoredMemories(files') ]_vars

\* an update with new tags and a metadata key the record has, of a record
\* that has another key and another content from an earlier update, made
\* after the clock has moved on
C27_Witness ==
    /\ lastOp.name = "updateMemory"
    /\ lastOp.success
    /\ lastOp.args.content = Absent
    /\ lastOp.args.tags # Absent
    /\ LET m == EntryOf(cache, lastOp.id)
       IN  /\ m.metadata = ("topic" :> "pets") @@ ("source" :> "chat")
           /\ m.content = PetsText
           /\ m.type = "conversation"
           /\ m.updatedAt > m.createdAt

(***************************************************************************)
(* Folders (FolderSpec).  A folder is an entry of folders.json; a record   *)
(* is in a folder when its metadata names the folder's path under the key  *)
(* folderPath or folder.  deleteFolder and renameFolder change the records *)
(* through updateMemory and deleteMemory, one call per record, and then    *)
(* rewrite folders.json.  The writes of one call are numbered in order:    *)
(* one per record of the folder, then those of folders.json; the write     *)
(* numbered `failing` fails (0: none does).                                *)
(***************************************************************************)
ReadAllLimit == 10000

Without(map, key) == [ k \in DOMAIN map \ { key } |-> map[k] ]

HasPair(memory, key, value) ==
    key \in DOMAIN memory.metadata /\ memory.metadata[key] = value

FailingWrite(failing) ==
    IF failing = 1 THEN [ NoFault EXCEPT !.writeFault = "lock" ] ELSE NoFault

\* MemoryManager.getMemoriesInFolder
getMemoriesInFolder(e, folderPath, time) ==
    LET allMemoriesResult ==
            readMemories(e, [ PlainFilter EXCEPT !.limit = ReadAllLimit ],
                         Env(NoFault, ProviderFailure, 0, time))
    IN  IF ~allMemoriesResult.success THEN << >>
        ELSE SelectSeq(allMemoriesResult.data,
                       LAMBDA memory : \/ HasPair(memory, "folder", folderPath)
                                       \/ HasPair(memory, "folderPath", folderPath))

FolderInfo(folderPath) == [ path |-> folderPath, name |-> folderPath ]

HasFolder(fs, folderPath) == \E i \in DOMAIN fs : fs[i].path = folderPath

\* MemoryManager.saveFolderInfo: the array it writes
saveFolderInfo(fs, folderInfo) ==
    IF HasFolder(fs, folderInfo.path)
    THEN [ i \in DOMAIN fs |-> IF fs[i].path = folderInfo.path THEN folderInfo ELSE fs[i] ]
    ELSE Append(fs, folderInfo)

\* MemoryManager.removeFolderInfo: the array it writes
removeFolderInfo(fs, folderPath) == SelectSeq(fs, LAMBDA f : f.path # folderPath)

\* what a folder operation leaves and answers
FolderResult(e, fs, success, error, data) ==
    [ eng |-> e, folders |-> fs, success |-> success, error |-> error, data |-> data ]

\* MemoryManager.createFolder
createFolder(e, fs, folderPath) ==
    LET e1 == initialize(e, "none").eng
    IN  IF HasFolder(fs, folderPath)
        THEN FolderResult(e1, fs, FALSE, "Folder already exists", << >>)
        ELSE FolderResult(e1, saveFolderInfo(fs, FolderInfo(folderPath)), TRUE, "", << >>)

\* const value = ...; followed by rest: the value is computed once
Const(value, Rest(_)) == CHOOSE r \in { Rest(v) : v \in { value } } : TRUE

\* the loop of deleteFolder that deletes the records: the engine and the
\* count of the deletions that succeeded
RECURSIVE DeleteAll(_, _, _, _, _)
DeleteAll(e, memories, failing, time, count) ==
    IF memories = << >> THEN [ eng |-> e, deletedMemories |-> count ]
    ELSE Const(deleteMemory(e, Head(memories).id,
                            Env(FailingWrite(failing), ProviderFailure, 0, time)),
               LAMBDA deleteResult :
                  DeleteAll(deleteResult.eng, Tail(memories), failing - 1, time,
                            IF deleteResult.success THEN count + 1 ELSE count))

\* the loop of deleteFolder that removes the folder from the records
RECURSIVE UntagAll(_, _, _, _, _)
UntagAll(e, memories, folderPath, failing, time) ==
    IF memories = << >> THEN e
    ELSE LET memory == Head(memories)
             updatedMetadata == Without(memory.metadata, "folderPath")
         IN  Const(IF HasPair(memory, "folderPath", folderPath)
                   THEN updateMemory(e, memory.id,
                                     [ content |-> Absent, tags |-> Absent,
                                       metadata |-> updatedMetadata ],
                                     Env(FailingWrite(failing), ProviderFailure, 0,
                                         time)).eng
                   ELSE e,
                   LAMBDA e1 : UntagAll(e1, Tail(memories), folderPath, failing - 1, time))

\* MemoryManager.deleteFolder
deleteFolder(e, fs, input, failing, time) ==
    Const(initialize(e, "none").eng, LAMBDA e1 :
    Const(getMemoriesInFolder(e1, input.folderPath, time), LAMBDA memoriesInFolder :
    Const(IF input.deleteMemories
          THEN DeleteAll(e1, memoriesInFolder, failing, time, 0)
          ELSE [ eng |-> UntagAll(e1, memoriesInFolder, input.folderPath, failing, time),
                 deletedMemories |-> 0 ],
          LAMBDA looped :
             IF failing = Len(memoriesInFolder) + 1
             THEN FolderResult(looped.eng, fs, FALSE, "Write failed", << >>)
             ELSE FolderResult(looped.eng, removeFolderInfo(fs, input.folderPath), TRUE,
                               "", << looped.deletedMemories >>))))

\* the loop of renameFolder over the records of the folder
RECURSIVE RepointAll(_, _, _, _, _, _)
RepointAll(e, memories, oldPath, newPath, failing, time) ==
    IF memories = << >> THEN e
    ELSE LET memory == Head(memories)
             updatedMetadata ==
                 ("folder" :> newPath) @@ ("folderPath" :> newPath) @@ memory.metadata
         IN  Const(IF \/ HasPair(memory, "folder", oldPath)
                      \/ HasPair(memory, "folderPath", oldPath)
                   THEN updateMemory(e, memory.id,
                                     [ content |-> Absent, tags |-> Absent,
                                       metadata |-> updatedMetadata ],
                                     Env(FailingWrite(failing), ProviderFailure, 0,
                                         time)).eng
                   ELSE e,
                   LAMBDA e1 :
                      RepointAll(e1, Tail(memories), oldPath, newPath, failing - 1, time))

\* MemoryManager.renameFolder
renameFolder(e, fs, input, failing, time) ==
    Const(initialize(e, "none").eng, LAMBDA e1 :
    IF ~HasFolder(fs, input.oldPath)
    THEN FolderResult(e1, fs, FALSE, "Folder not found", << >>)
    ELSE IF HasFolder(fs, input.newPath)
    THEN FolderResult(e1, fs, FALSE, "Folder already exists", << >>)
    ELSE
    Const(getMemoriesInFolder(e1, input.oldPath, time), LAMBDA memoriesInFolder :
    Const(RepointAll(e1, memoriesInFolder, input.oldPath, input.newPath, failing, time),
          LAMBDA e2 :
             LET updatedFolderInfo == FolderInfo(input.newPath)
                 removed == removeFolderInfo(fs, input.oldPath)
             IN  IF failing = Len(memoriesInFolder) + 1
                 THEN FolderResult(e2, fs, FALSE, "Write failed", << >>)
                 ELSE IF failing = Len(memoriesInFolder) + 2
                 THEN FolderResult(e2, removed, FALSE, "Write failed", << >>)
                 ELSE FolderResult(e2, saveFolderInfo(removed, updatedFolderInfo), TRUE,
                                   "", << updatedFolderInfo >>))))

FolderPaths == { "work", "home" }

FolderCreateInputs ==
    { [ content |-> CatsText, type |-> "conversation", conversationId |-> "c1",
        tags |-> << >>, metadata |-> ("folderPath" :> "work") @@ ("topic" :> "animals") ] }

ApplyFolder(r, name, args) ==
    /\ files' = r.eng.files
    /\ cache' = r.eng.cache
    /\ maxSize' = r.eng.maxSize
    /\ index' = r.eng.index
    /\ vectors' = r.eng.vectors
    /\ isDirty' = r.eng.isDirty
    /\ isInitialized' = r.eng.isInitialized
    /\ vectorEnabled' = r.eng.vectorEnabled
    /\ provider' = r.eng.provider
    /\ configFile' = r.eng.configFile
    /\ snapshot' = r.eng.snapshot
    /\ folders' = r.folders
    /\ lastOp' = [ name |-> name, id |-> 0, args |-> args, success |-> r.success,
                   error |-> r.error, thrown |-> FALSE, embeddingFailed |-> FALSE,
                   data |-> r.data ]
    /\ UNCHANGED << now, nextId, deleted, touched, evicted, autoSave, saveInterval,
                    saving, indexed, retry, pending, before, heap >>

CreateFolder(folderPath) ==
    \E r \in { createFolder(Eng, folders, folderPath) } :
       ApplyFolder(r, "createFolder", [ folderPath |-> folderPath ])

DeleteFolder(input, failing) ==
    /\ failing <= nextId     \* one write for each record created, one of the folder file
    /\ \E r \in { deleteFolder(Eng, folders, input, failing, now) } :
          ApplyFolder(r, "deleteFolder", [ input |-> input, failing |-> failing ])

RenameFolder(input, failing) ==
    /\ failing <= nextId + 1 \* one write for each record created, two of the folder file
    /\ failing > 0 => HasFolder(folders, input.oldPath) /\ ~HasFolder(folders, input.newPath)
    /\ \E r \in { renameFolder(Eng, folders, input, failing, now) } :
          ApplyFolder(r, "renameFolder", [ input |-> input, failing |-> failing ])

FolderInit ==
    /\ Init
    /\ configFile = 0

FolderNext ==
    \/ \E input \in FolderCreateInputs : CreateMemory(input, NoFault, ProviderFailure, 1)
    \/ \E folderPath \in FolderPaths : CreateFolder(folderPath)
    \/ \E folderPath \in FolderPaths, deleteMemories \in BOOLEAN, failing \in 0..(MaxIds + 1) :
          DeleteFolder([ folderPath |-> folderPath, deleteMemories |-> deleteMemories ],
                       failing)
    \/ \E oldPath \in FolderPaths, failing \in 0..(MaxIds + 2) :
          \E newPath \in FolderPaths \ { oldPath } :
             RenameFolder([ oldPath |-> oldPath, newPath |-> newPath ], failing)

FolderSpec == FolderInit /\ [][FolderNext]_vars

\* the ids of the cached records whose metadata holds the pair
IdsWithPair(c, key, value) ==
    { c[i].id : i \in { j \in DOMAIN c : HasPair(c[j], key, value) } }

\* C28 as stated: when deleteFolder with deleteMemories = false succeeds,
\* every record that was in the folder still exists, and none of them has
\* the folder's path as its folderPath any more.
C28_DeleteFolderUntagsItsMemories ==
    [][ (/\ lastOp'.name = "deleteFolder"
         /\ lastOp'.success
         /\ ~lastOp'.args.input.deleteMemories)
        => LET folderPath == lastOp'.args.input.folderPath
               inFolder == IdsWithPair(cache, "folderPath", folderPath)
                              \cup IdsWithPair(cache, "folder", folderPath)
           IN  /\ inFolder \subseteq Range(Ids(cache'))
               /\ inFolder \cap IdsWithPair(cache', "folderPath", folderPath) = {} ]_vars

\* C29 as stated: after renameFolder, whether it succeeded or one of its
\* writes failed, the folder list does not hold newPath in place of oldPath
\* while a record of the folder still names oldPath, and no record of the
\* folder names newPath while the folder list still holds oldPath and not
\* newPath.
C29_RenameFolderIsAtomic ==
    [][ (lastOp'.name = "renameFolder" /\ HasFolder(folders, lastOp'.args.input.oldPath))
        => LET oldPath == lastOp'.args.input.oldPath
               newPath == lastOp'.args.input.newPath
               inFolder == IdsWithPair(cache, "folderPath", oldPath)
           IN  /\ ~ /\ HasFolder(folders', newPath)
                    /\ ~HasFolder(folders', oldPath)
                    /\ inFolder \cap IdsWithPair(cache', "folderPath", oldPath) # {}
               /\ ~ /\ HasFolder(folders', oldPath)
                    /\ ~HasFolder(folders', newPath)
                    /\ inFolder \cap IdsWithPair(cache', "folderPath", newPath) # {} ]_vars

(***************************************************************************)
(* Capacities (CapacitySpec): the cache of CacheSpec with every capacity   *)
(* setMaxSize accepts from 0 on; the method checks nothing.                *)
(***************************************************************************)
CapacityNext ==
    \/ \E id \in CacheIds : Get(id)
    \/ \E entry \in CacheEntries : Set(entry)
    \/ \E id \in CacheIds : Delete(id)
    \/ \E capacity \in 0..MaxCache : SetMaxSize(capacity)

CapacitySpec == CacheInit /\ [][CapacityNext]_vars

\* C30 as stated: after any sequence of set, get, delete and setMaxSize the
\* cache holds at most maxSize entries.
C30_SizeWithinCapacity == Len(cache) <= maxSize


(***************************************************************************)
(* The index under any sequence of calls: addMemory, removeMemory and      *)
(* updateMemory are given any record, whether or not the index holds its   *)
(* id or the record it is told to remove.                                  *)
(***************************************************************************)
AnyRecords == { r \in IndexRecords : r.createdAt = 1 /\ r.content # PetsText }

\* MemoryIndex.addMemory(memory), for any record
AddAny(memory) ==
    /\ index' = addMemory(index, memory)
    /\ lastOp' = IndexResult("addMemory", memory.id, memory, << >>)
    /\ UNCHANGED << indexed, NonIndexVars >>

IndexMaps == { "content", "tag", "type", "conversation", "metadata", "date" }

\* the keys that are in a map of the index before and not after
KeysDeleted(idx, after) ==
    UNION { { << name, key >> : key \in (DOMAIN idx[name]) \ (DOMAIN after[name]) } :
            name \in IndexMaps }

\* MemoryIndex.removeMemory(memory), for any record; the keys it deleted are
\* kept with the arguments
RemoveAny(memory) ==
    /\ index' = removeMemory(index, memory)
    /\ lastOp' = IndexResult("removeMemory", memory.id,
                             [ memory |-> memory, deleted |-> KeysDeleted(index, index') ],
                             << >>)
    /\ UNCHANGED << indexed, NonIndexVars >>

\* MemoryIndex.updateMemory(oldMemory, newMemory), for any two records
UpdateAny(oldMemory, newMemory) ==
    /\ index' = indexUpdateMemory(index, oldMemory, newMemory)
    /\ lastOp' = IndexResult("updateMemory", newMemory.id,
                             [ old |-> oldMemory, new |-> newMemory ], << >>)
    /\ UNCHANGED << indexed, NonIndexVars >>

AnyIndexNext ==
    \/ \E memory \in AnyRecords : AddAny(memory)
    \/ \E memory \in AnyRecords : RemoveAny(memory)
    \/ \E oldMemory, newMemory \in AnyRecords : UpdateAny(oldMemory, newMemory)

AnyIndexSpec == IndexInit /\ [][AnyIndexNext]_vars

Construct(cacheSize) ==
    /\ nextId = 1
    /\ Restart(cacheSize)

CrowdedNext ==
    \/ \E cacheSize \in 1..MaxCache : Construct(cacheSize)
    \/ \E input \in ValidCreateInputs : CreateMemory(input, NoFault, ProviderFailure, 1)
    \/ \E id \in AllIds, input \in ValidUpdateInputs : UpdateMemory(id, input, NoFault)
    \/ \E id \in AllIds : DeleteMemory(id, NoFault)
    \/ ReadMemories(PlainFilter, NoFault)

CrowdedSpec == RestartInit /\ [][CrowdedNext]_vars

\* the ids createMemory returned with success and deleteMemory did not delete
LiveIds == (1..(nextId - 1)) \ deleted

\* C32 as stated: a record that was created and not deleted stays reachable
\* by id: updateMemory and deleteMemory on it never answer 'Memory not
\* found', and an unfiltered readMemories without limit returns it.
C32_CreatedStaysReachable ==
    [][ /\ (lastOp'.name \in { "updateMemory", "deleteMemory" } /\ lastOp'.id \in LiveIds)
           => lastOp'.error # "Memory not found"
        /\ lastOp'.name = "readMemories"
           => \A id \in LiveIds : \E i \in DOMAIN lastOp'.data : lastOp'.data[i].id = id
      ]_vars


\* C33 as stated: whenever no save is in progress and the dirty flag is
\* false, the snapshot last written holds exactly the entries of the store
\* (a store that never wrote a snapshot is empty).
C33_CleanStoreIsSaved ==
    (saving = << >> /\ ~isDirty)
        => IF snapshot.exists
           THEN snapshot.format = "ok" /\ snapshot.entries = stringifyVectors(vectors)
           ELSE vectors = << >>


(***************************************************************************)
(* Overlapping createMemory calls (OverlapSpec).  createMemory is async as *)
(* updateMemory is: with vector search disabled it waits for the disk at   *)
(* readJsonFile and at writeJsonFile.  FileManager locks the file within   *)
(* one read and within one write, never from the read to the write.        *)
(***************************************************************************)
\* createMemory from await this.initialize() (the engine is ready) to the
\* call of readJsonFile: the record is built with its uuid and its dates
createBegun(e, input, id, time) ==
    LET c == [ CallOf("createMemory", id, input) EXCEPT !.at = time ]
        memory == [ id |-> id, content |-> input.content, type |-> input.type,
                    conversationId |-> input.conversationId,
                    createdAt |-> time, updatedAt |-> time,
                    tags |-> input.tags, metadata |-> input.metadata,
                    embedding |-> NoEmbedding ]
    IN  IF input.content = << >>
        THEN [ c EXCEPT !.phase = "done", !.error = "Validation failed" ]
        ELSE [ c EXCEPT !.newMemory = << memory >> ]

\* readJsonFile resolves: existingMemories.push(memory)
createReadSettled(e, c) ==
    LET filePath == getMemoryFilePath(c.newMemory[1])
    IN  [ c EXCEPT !.phase = "write",
                   !.data = Append(readJsonFile(e.files, filePath), c.newMemory[1]) ]

\* writeJsonFile resolves: the file holds the array, then cache.set and
\* index.addMemory
createWriteSettled(e, c) ==
    LET filePath == getMemoryFilePath(c.newMemory[1])
    IN  [ e EXCEPT !.files = writeJsonFile(@, filePath, c.data, "none"),
                   !.cache = CacheSet(@, e.maxSize, c.id, c.newMemory[1]),
                   !.index = addMemory(@, c.newMemory[1]) ]

\* a createMemory call starts, whatever the earlier calls are doing
BeginCreate(input, tick) ==
    /\ isInitialized
    /\ nextId <= MaxIds
    /\ Len(pending) < MaxCalls
    /\ pending' = Append(pending, createBegun(Eng, input, nextId, now + tick))
    /\ nextId' = nextId + 1
    /\ now' = now + tick
    /\ UNCHANGED << files, cache, maxSize, index, vectors, isDirty, isInitialized,
                    vectorEnabled, provider, configFile, snapshot, deleted, touched,
                    evicted, autoSave, saveInterval, saving, indexed, retry, before,
                    folders, heap, lastOp >>

CreateReadSettles(i) ==
    /\ i \in DOMAIN pending
    /\ pending[i].name = "createMemory"
    /\ pending[i].phase = "read"
    /\ pending' = [ pending EXCEPT ![i] = createReadSettled(Eng, @) ]
    /\ UNCHANGED << files, cache, maxSize, index, now, deleted, before, NonCallVars >>

CreateWriteSettles(i) ==
    /\ i \in DOMAIN pending
    /\ pending[i].name = "createMemory"
    /\ pending[i].phase = "write"
    /\ \E e \in { createWriteSettled(Eng, pending[i]) } :
           /\ files' = e.files
           /\ cache' = e.cache
           /\ index' = e.index
    /\ pending' = [ pending EXCEPT ![i] = [ @ EXCEPT !.phase = "done", !.success = TRUE ] ]
    /\ UNCHANGED << maxSize, now, deleted, before, NonCallVars >>

OverlapNext ==
    \/ ReadMemories(PlainFilter, NoFault)
    \/ /\ pending = << >>
       /\ \E input \in ValidCreateInputs : CreateMemory(input, NoFault, ProviderFailure, 1)
    \/ \E input \in ValidCreateInputs : BeginCreate(input, 1)
    \/ \E i \in 1..MaxCalls : CreateReadSettles(i)
    \/ \E i \in 1..MaxCalls : CreateWriteSettles(i)

OverlapSpec == ConcurrentInit /\ [][OverlapNext]_vars

\* C34 as stated: every record for which createMemory returned success is
\* in its durable file afterwards, also when createMemory calls on the same
\* file overlap.
C34_CreatedIsDurable ==
    \A i \in DOMAIN pending :
        (pending[i].name = "createMemory" /\ pending[i].phase = "done" /\ pending[i].success)
            => \E m \in StoredMemories(files) : m.id = pending[i].id


(***************************************************************************)
(* Overlapping first calls (StartupSpec).  initialize() is async: after    *)
(* its first line it awaits listMemoryFiles, readJsonFile and the load of  *)
(* the vector store, and sets isInitialized at its end.  A public          *)
(* operation that finds the engine not ready waits in initialize(); other  *)
(* calls may start meanwhile.                                              *)
(***************************************************************************)
\* the calls that are inside initialize(), past its first line
Initializing == { i \in DOMAIN pending : pending[i].phase = "initialize" }

\* readMemories is called on an engine that is not ready: initialize() goes
\* past if (this.isInitialized) return and starts to load
BeginRead(filter) ==
    /\ ~isInitialized
    /\ Len(pending) < MaxCalls
    /\ pending' = Append(pending, [ CallOf("readMemories", 0, filter) EXCEPT
                                      !.at = now, !.phase = "initialize" ])
    /\ UNCHANGED << files, cache, maxSize, index, now, deleted, before, NonCallVars >>

\* the load of the call at place i ends, and readMemories goes on to its end
InitializeSettles(i) ==
    /\ i \in Initializing
    /\ \E init \in { initializeBody(Eng, "none") } :
          \E r \in { IF init.threw
                     THEN CatchAll(Throw(init.eng, "Initialization failed"))
                     ELSE readMemories(init.eng, pending[i].input,
                                       Env(NoFault, ProviderFailure, 0, now)) } :
             /\ files' = r.eng.files
             /\ cache' = r.eng.cache
             /\ index' = r.eng.index
             /\ vectors' = r.eng.vectors
             /\ isDirty' = r.eng.isDirty
             /\ isInitialized' = r.eng.isInitialized
             /\ vectorEnabled' = r.eng.vectorEnabled
             /\ provider' = r.eng.provider
             /\ lastOp' = [ name |-> "readMemories", id |-> 0, args |-> pending[i].input,
                            success |-> r.success, error |-> r.error,
                            thrown |-> r.thrown, embeddingFailed |-> FALSE,
                            data |-> r.data ]
             /\ pending' = [ pending EXCEPT ![i] = [ @ EXCEPT !.phase = "done",
                                                              !.success = r.success,
                                                              !.error = r.error ] ]
    /\ UNCHANGED << maxSize, configFile, snapshot, now, nextId, deleted, touched, evicted,
                    autoSave, saveInterval, saving, indexed, retry, before, folders,
                    heap >>

StartupNext ==
    \/ /\ Initializing = {}
       /\ \E input \in ValidCreateInputs : CreateMemory(input, NoFault, ProviderFailure, 1)
    \/ /\ Initializing = {}
       /\ \E cacheSize \in 1..MaxCache : Restart(cacheSize)
    \/ \E filter \in { PlainFilter, [ PlainFilter EXCEPT !.type = "global" ] } :
          BeginRead(filter)
    \/ \E i \in 1..MaxCalls : InitializeSettles(i)

StartupSpec == RestartInit /\ [][StartupNext]_vars

\* C35 as stated: at most one initialization is in flight: an operation
\* that starts while another one is still initializing does not start a
\* second load.
C35_SingleInitialization == Cardinality(Initializing) <= 1


(***************************************************************************)
(* The query_memories tool (QuerySpec): MemoryTools.queryMemories reads    *)
(* with the caller's text, tags, type, conversation, limit and offset and  *)
(* then filters what it got by date range and metadata.                    *)
(***************************************************************************)
QueryDefaultLimit == 50

\* the filter queryMemories hands to readMemories: limit = 50 and offset = 0
\* stand in for the arguments the caller omits
queryFilter(args) ==
    [ searchText |-> args.searchText, tags |-> args.tags, type |-> args.type,
      conversationId |-> args.conversationId,
      limit |-> IF args.limit = NoLimit THEN QueryDefaultLimit ELSE args.limit,
      offset |-> IF args.offset = NoOffset THEN 0 ELSE args.offset ]

\* the callback of the date filter of queryMemories
InDateRange(memory, dateRange) ==
    /\ ~(dateRange.from # NoDate /\ memory.createdAt < dateRange.from)
    /\ ~(dateRange.to # NoDate /\ memory.createdAt > dateRange.to)

\* the callback of the metadata filter of queryMemories
HasMetadata(memory, pairs) ==
    \A key \in DOMAIN pairs :
        key \in DOMAIN memory.metadata /\ memory.metadata[key] = pairs[key]

\* MemoryTools.queryMemories
queryMemories(e, args, env) ==
    Const(readMemories(e, queryFilter(args), env), LAMBDA result :
        IF ~result.success THEN result
        ELSE LET byDate == IF args.dateRange.given
                           THEN SelectSeq(result.data,
                                          LAMBDA m : InDateRange(m, args.dateRange))
                           ELSE result.data
                 byMetadata == IF args.metadata.given
                               THEN SelectSeq(byDate,
                                              LAMBDA m : HasMetadata(m, args.metadata.pairs))
                               ELSE byDate
             IN  [ result EXCEPT !.data = byMetadata ])

PlainQuery ==
    [ searchText |-> NoText, tags |-> NoTags, type |-> NoType,
      conversationId |-> NoConversation, dateRange |-> NoDateRange,
      metadata |-> NoMetadata, limit |-> NoLimit, offset |-> NoOffset ]

QueryArgs ==
    { [ criteria EXCEPT !.limit = limit, !.offset = offset ] :
        criteria \in { PlainQuery,
                       [ PlainQuery EXCEPT !.metadata = SomeMetadata("topic" :> "animals") ],
                       [ PlainQuery EXCEPT !.dateRange = SomeDateRange(NoDate, 1) ],
                       [ PlainQuery EXCEPT !.searchText = LikeText,
                                           !.dateRange = SomeDateRange(1, NoDate) ] },
        limit \in { NoLimit, 1 },
        offset \in { NoOffset, 1 } }

QueryMemories(args) ==
    /\ \E r \in { queryMemories(Eng, args, Env(NoFault, ProviderFailure, 0, now)) } :
          Apply(r, "queryMemories", 0, args)
    /\ UNCHANGED << now, nextId, deleted >>

QueryNext ==
    \/ \E input \in ValidCreateInputs : CreateMemory(input, NoFault, ProviderFailure, 1)
    \/ \E args \in QueryArgs : QueryMemories(args)

QuerySpec == ReadInit /\ [][QueryNext]_vars

\* the record m meets every criterion of the query, date range and metadata
\* included
MatchesQuery(m, args) ==
    /\ Matches(m, args)
    /\ args.dateRange.given => InDateRange(m, args.dateRange)
    /\ args.metadata.given => HasMetadata(m, args.metadata.pairs)

\* C36 as stated: query_memories returns the slice [offset, offset + limit)
\* of the records that meet all given criteria, date range and metadata
\* included: it has the length of that slice and holds matching records
\* only, so no matching record is left out while fewer than limit records
\* are returned.
C36_QueryCountsOverFilteredResult ==
    (lastOp.name = "queryMemories" /\ lastOp.success)
    => LET args == lastOp.args
           result == lastOp.data
           matching == { m \in Range(cache) : MatchesQuery(m, args) }
           offset == queryFilter(args).offset
           limit == queryFilter(args).limit
           rest == Max(0, Cardinality(matching) - offset)
       IN  /\ Len(result) = Min(limit, rest)
           /\ \A k \in DOMAIN result : result[k] \in matching


(***************************************************************************)
(* Reconfiguration (ReconfigureSpec): the embedding provider is configured *)
(* more than once, with one dimensionality or another, while records are   *)
(* created and searched.                                                   *)
(***************************************************************************)
Dimensions == { EmbeddingDim, EmbeddingDim + 1 }

\* an embedding of each dimensionality, as a provider of it answers
DimensionAnswers == { ProviderAnswer(<< 6, 8 >>), ProviderAnswer(<< 0, 6, 8 >>) }

ReconfigureNext ==
    \/ \E answer \in DimensionAnswers :
          CreateMemory([ content |-> PetsText, type |-> "global",
                         conversationId |-> NoConversation, tags |-> << >>,
                         metadata |-> EmptyMap ], NoFault, answer, 1)
    \/ \E dimensions \in Dimensions, answer \in DimensionAnswers :
          ConfigureEmbedding(dimensions, NoFault, answer)
    \/ \E answer \in DimensionAnswers : SemanticSearch(PlainSearch, NoFault, answer)

ReconfigureSpec == Init /\ [][ReconfigureNext]_vars

\* C37 as stated: every stored embedding, on a record and in the vector
\* store, has the length of the active provider's dimensionality, also
\* after the provider was configured again with another dimensionality.
C37_EmbeddingsHaveProviderDimension ==
    provider # 0
        => /\ \A i \in DOMAIN vectors : Len(vectors[i].embedding) = provider
           /\ \A m \in Range(cache) \cup StoredMemories(files) :
                 m.embedding # NoEmbedding => Len(m.embedding) = provider


(***************************************************************************)
(* References (AliasSpec).  A JavaScript record is an object that holds    *)
(* its scalar fields and the references of its tags array and of its       *)
(* metadata object.  heap.objects lists the objects made so far, an        *)
(* address is a place of that list; heap.caller is the record the caller   *)
(* of the cache holds, heap.held the entry object of each cached id, and   *)
(* heap.stored (history) the record as it read when it was set.  The cache *)
(* variable shows the cached entries as they read now.                     *)
(***************************************************************************)
\* the record an object reads as: its fields, with the array and the object
\* its references lead to
Deref(objects, address) ==
    [ id |-> objects[address].id, content |-> objects[address].content,
      tags |-> objects[objects[address].tags],
      metadata |-> objects[objects[address].metadata] ]

\* const memory = { id, content, tags: [...], metadata: {...} }
newRecord(h, entry) ==
    LET n == Len(h.objects)
    IN  [ h EXCEPT !.objects = @ \o << entry.tags, entry.metadata,
                                       [ id |-> entry.id, content |-> entry.content,
                                         tags |-> n + 1, metadata |-> n + 2 ] >>,
                   !.caller = n + 3 ]

\* { ...entry }: a new object with the same field values, references included
spread(objects, address) == Append(objects, objects[address])

\* the entry part of MemoryCache.set(id, entry) for the caller's record:
\* entry: { ...entry } is made and held for the id
setCopy(h, id) ==
    [ h EXCEPT !.objects = spread(@, h.caller),
               !.held = (id :> Len(h.objects) + 1) @@ @,
               !.stored = (id :> Deref(h.objects, h.caller)) @@ @ ]

\* the caller changes its record: memory.content = ..., memory.tags.push(...)
\* or memory.metadata.source = ...
mutate(h, field) ==
    LET record == h.objects[h.caller]
    IN  CASE field = "content" ->
                [ h EXCEPT !.objects[h.caller].content = DogsText ]
          [] field = "tags" ->
                [ h EXCEPT !.objects[record.tags] = Append(@, "dogs") ]
          [] field = "metadata" ->
                [ h EXCEPT !.objects[record.metadata] = ("source" :> "chat") @@ @ ]

\* the cached entries as they read with the objects of h
View(h, c) == [ i \in DOMAIN c |-> Deref(h.objects, h.held[c[i].id]) ]

AliasEntries ==
    { [ id |-> id, content |-> CatsText, tags |-> << "pets" >>,
        metadata |-> ("topic" :> "animals") ] : id \in AllIds }

\* the caller makes a record and calls MemoryCache.set(entry.id, record)
SetRecord(entry) ==
    /\ now < MaxTicks
    /\ now' = now + 1
    /\ \E h \in { setCopy(newRecord(heap, entry), entry.id) } :
          /\ heap' = h
          /\ cache' = CacheSet(cache, maxSize, entry.id, Deref(h.objects, h.held[entry.id]))
    /\ touched' = Of((entry.id :> now') @@ touched, cache')
    /\ evicted' = (evicted \cup Dropped(cache, cache')) \ { entry.id }
    /\ lastOp' = CacheResult("set", entry.id, entry, TRUE, << >>)
    /\ UNCHANGED << maxSize, files, index, vectors, isDirty, isInitialized, vectorEnabled,
                    provider, configFile, snapshot, nextId, deleted, autoSave,
                    saveInterval, saving, indexed, retry, pending, before, folders >>

\* the caller changes the record it has set
MutateRecord(field) ==
    /\ heap.caller # 0
    /\ now < MaxTicks
    /\ now' = now + 1
    /\ heap' = mutate(heap, field)
    /\ cache' = View(heap', cache)
    /\ lastOp' = CacheResult("mutate", heap.objects[heap.caller].id, field, TRUE, << >>)
    /\ UNCHANGED << maxSize, touched, evicted, files, index, vectors, isDirty,
                    isInitialized, vectorEnabled, provider, configFile, snapshot, nextId,
                    deleted, autoSave, saveInterval, saving, indexed, retry, pending,
                    before, folders >>

AliasNext ==
    \/ \E entry \in AliasEntries : SetRecord(entry)
    \/ \E field \in { "content", "tags", "metadata" } : MutateRecord(field)
    \/ \E id \in AllIds : Get(id)

AliasSpec == CacheInit /\ [][AliasNext]_vars

\* C38 as stated: a get returns the record as it was when it was set,
\* whatever the caller of set did to its own record afterwards, to its tags
\* list and its metadata map included.
C38_SetStoresDefensiveCopy ==
    (lastOp.name = "get" /\ lastOp.success) => lastOp.data[1] = heap.stored[lastOp.id]


(***************************************************************************)
(* The hybrid score as a function of the vector similarity and the keyword *)
(* weight: combineSearchResults applied to one vector hit and one keyword  *)
(* hit, for every similarity a cosine can have and every weight the        *)
(* schema admits, in steps of a tenth.                                     *)
(***************************************************************************)
\* cosine similarities: -1.0, -0.9, ..., 1.0
Similarities == { (k * One) \div 10 : k \in -10..10 }

\* keywordWeight: z.number().min(0).max(1)
Weights == { (k * One) \div 10 : k \in 0..10 }

ScoreMemory(id) ==
    [ id |-> id, content |-> CatsText, type |-> "global",
      conversationId |-> NoConversation, createdAt |-> 1, updatedAt |-> 1,
      tags |-> << >>, metadata |-> NoMetadata, embedding |-> NoEmbedding ]

\* a result of the vector search for the record id
ScoreHit(id, similarity) ==
    [ id |-> id, similarity |-> similarity, content |-> CatsText,
      metadata |-> VectorMetadata(ScoreMemory(id)) ]

\* combineSearchResults(vectorResults, keywordResults, keywordWeight) with
\* the vector hit of record 1 and the keyword hit of record keywordId
CombineSearchResults(similarity, keywordWeight, keywordId) ==
    /\ lastOp' = [ NoOp EXCEPT
                     !.name = "combineSearchResults",
                     !.id = keywordId,
                     !.args = [ similarity |-> similarity,
                                keywordWeight |-> keywordWeight ],
                     !.data = combineSearchResults(<< ScoreHit(1, similarity) >>,
                                                   << ScoreMemory(keywordId) >>,
                                                   keywordWeight) ]
    /\ UNCHANGED << cache, maxSize, now, touched, evicted, EngineVars >>

ScoreNext ==
    \E similarity \in Similarities, keywordWeight \in Weights, keywordId \in AllIds :
       CombineSearchResults(similarity, keywordWeight, keywordId)

ScoreSpec == Init /\ [][ScoreNext]_vars

DefaultMaxAge == 30 * TicksPerDay

\* maxAge is a number the tool passes on as it got it
MaxAges == { -1, DefaultMaxAge }

\* FileManager.cleanupOldConversations: the files it leaves and deletedCount
\* (a conversation file is a memory file that is not the global one)
cleanupOldFiles(fs, maxAge) ==
    LET old == { f \in DOMAIN fs : f # GlobalFile /\ maxAge < 0 }
    IN  [ files |-> [ f \in (DOMAIN fs) \ old |-> fs[f] ],
          deletedCount |-> Cardinality(old) ]

\* MemoryManager.cleanupOldConversations
cleanupOldConversations(e, maxAge) ==
    Const(cleanupOldFiles(e.files, maxAge),
          LAMBDA c : Return([ e EXCEPT !.files = c.files ], TRUE, "",
                            << c.deletedCount >>))

CleanupOldConversations(maxAge) ==
    /\ maxAge < 0 \/ maxAge >= now
    /\ \E r \in { cleanupOldConversations(Eng, maxAge) } :
          Apply(r, "cleanupOldConversations", 0, [ maxAge |-> maxAge ])
    /\ UNCHANGED << now, nextId, deleted >>

CleanupAnswers == { ProviderAnswer(<< 6, 8 >>) }

CleanupNext ==
    \/ \E input \in ValidCreateInputs, answer \in CleanupAnswers :
          CreateMemory(input, NoFault, answer, 1)
    \/ \E id \in AllIds, input \in ValidUpdateInputs : UpdateMemory(id, input, NoFault)
    \/ ReadMemories(PlainFilter, NoFault)
    \/ \E answer \in CleanupAnswers : SemanticSearch(PlainSearch, NoFault, answer)
    \/ \E maxAge \in MaxAges : CleanupOldConversations(maxAge)

CleanupSpec == HybridInit /\ [][CleanupNext]_vars

\* the records that were created and are in no memory file: no record is
\* deleted and no write fails here, so their file was cleaned up
CleanedUp == (1..(nextId - 1)) \ { m.id : m \in StoredMemories(files) }

\* C40 as stated: once cleanupOldConversations has deleted a conversation's
\* file, no readMemories and no semanticSearch returns a record that was
\* stored in it, and no updateMemory of such a record returns success.
C40_CleanedUpIsGone ==
    /\ (lastOp.name \in { "readMemories", "semanticSearch" } /\ lastOp.success)
       => \A k \in DOMAIN lastOp.data : lastOp.data[k].id \notin CleanedUp
    /\ (lastOp.name = "updateMemory" /\ lastOp.id \in CleanedUp) => ~lastOp.success
=============================================================================
